---- MODULE Spec2Model ----
(***************************************************************************)
(* Token construction pipeline of the SSO launch simulator:                *)
(*   POST /api/token/generate  (src/app/api/token/generate/route.ts)       *)
(*   generateSignedAndEncryptedToken, constructLaunchUrl (src/lib/jwe.ts)  *)
(*   loadAndValidateConfig, getEnvironmentConfig (src/lib/config.ts)       *)
(*                                                                         *)
(* Strings that the code takes apart or puts together (domains, paths,     *)
(* query strings, compact tokens) are sequences of symbols.  A symbol is   *)
(* a literal character or one base64url segment of a compact JOSE          *)
(* serialization; a segment carries the value it encodes, so that          *)
(* decoding is the inverse of encoding and nothing else.  Strings that     *)
(* the code only tests for presence or copies (client id, secret, PEM      *)
(* text, algorithm names) are atoms, "" standing for a missing or empty    *)
(* value, which the code does not distinguish (it tests `!x`).             *)
(***************************************************************************)
EXTENDS Integers, Sequences, FiniteSets, TLC

\* ------------------------------------------------------------------ bounds

\* Number of POST /api/token/generate requests in one behaviour.
NReq == 2
\* Last value of the wall clock (seconds); Date.now() never goes back.
MaxClock == 1

\* ------------------------------------------------------------- symbols

Lit(c) == [lit |-> c, part |-> "", val |-> <<>>]
Blk(p, v) == [lit |-> "", part |-> p, val |-> <<v>>]
IsLit(s) == s.lit # ""
\* A string literal of the source, written as its characters.
Str(cs) == [i \in DOMAIN cs |-> Lit(cs[i])]
Dot == Lit(".")

RECURSIVE Concat(_)
\* Concatenation of a sequence of strings.
Concat(ss) == IF ss = <<>> THEN <<>> ELSE Head(ss) \o Concat(Tail(ss))

RECURSIVE JoinWith(_, _)
\* Array.prototype.join: the strings of ss with sep between them.
JoinWith(ss, sep) ==
  IF ss = <<>> THEN <<>>
  ELSE IF Len(ss) = 1 THEN ss[1]
  ELSE ss[1] \o sep \o JoinWith(Tail(ss), sep)

\* String.prototype.startsWith / endsWith for a one-character argument.
StartsWith(s, c) == Len(s) > 0 /\ s[1] = Lit(c)
EndsWith(s, c) == Len(s) > 0 /\ s[Len(s)] = Lit(c)
\* s.slice(0, -1)
DropLast(s) == SubSeq(s, 1, Len(s) - 1)

\* Positions at which t occurs in s as a contiguous substring.
OccurrencesAt(t, s) ==
  {i \in 1..(Len(s) - Len(t) + 1) : SubSeq(s, i, i + Len(t) - 1) = t}
Occurrences(t, s) == Cardinality(OccurrencesAt(t, s))

RECURSIVE SplitOn(_, _)
\* String.prototype.split for a one-character separator.
SplitOn(s, c) ==
  LET hits == {i \in 1..Len(s) : s[i] = Lit(c)}
  IN IF hits = {} THEN <<s>>
     ELSE LET i == CHOOSE k \in hits : \A j \in hits : k <= j
          IN <<SubSeq(s, 1, i - 1)>> \o SplitOn(SubSeq(s, i + 1, Len(s)), c)

\* ------------------------------------------------- JavaScript objects

\* A plain object with string keys is the sequence of its own enumerable
\* properties <<key, value>> in enumeration order: keys that are array
\* indices first, ascending, then the other keys in insertion order.
Digits == <<"0", "1", "2", "3", "4", "5", "6", "7", "8", "9">>
DigitValue(s) == (CHOOSE d \in 1..10 : Lit(Digits[d]) = s) - 1
IsDigit(s) == \E d \in 1..10 : Lit(Digits[d]) = s

\* A canonical numeric string: "0", or digits without a leading zero.
IsArrayIndex(k) ==
  /\ Len(k) > 0
  /\ \A i \in 1..Len(k) : IsDigit(k[i])
  /\ (Len(k) > 1 => k[1] # Lit("0"))

RECURSIVE IndexValue(_)
IndexValue(k) ==
  IF k = <<>> THEN 0
  ELSE 10 * IndexValue(DropLast(k)) + DigitValue(k[Len(k)])

HasKey(obj, k) == \E i \in 1..Len(obj) : obj[i][1] = k

\* obj[k] = v: an existing property keeps its place and takes the new
\* value; a new array-index key goes among the index keys in ascending
\* order; any other new key goes last.
ObjSet(obj, k, v) ==
  IF HasKey(obj, k)
  THEN [i \in 1..Len(obj) |-> IF obj[i][1] = k THEN <<k, v>> ELSE obj[i]]
  ELSE IF IsArrayIndex(k)
  THEN LET before == SelectSeq(obj, LAMBDA p :
                        IsArrayIndex(p[1]) /\ IndexValue(p[1]) < IndexValue(k))
           after == SubSeq(obj, Len(before) + 1, Len(obj))
       IN before \o <<<<k, v>>>> \o after
  ELSE Append(obj, <<k, v>>)

RECURSIVE ObjSpread(_, _)
\* { ...target, ...src }: the properties of src assigned in order.
ObjSpread(target, src) ==
  IF src = <<>> THEN target
  ELSE ObjSpread(ObjSet(target, Head(src)[1], Head(src)[2]), Tail(src))

\* The value of obj[k]; the empty string when k is no property of obj.
ObjGet(obj, k) ==
  IF HasKey(obj, k)
  THEN (CHOOSE p \in {obj[i] : i \in 1..Len(obj)} : p[1] = k)[2]
  ELSE <<>>

\* -------------------------------------------------- URLSearchParams

\* application/x-www-form-urlencoded byte serializer: letters, digits and
\* * - . _ stay, a space becomes "+", every other byte becomes %XX.  A
\* base64url segment holds only letters, digits, - and _ and stays.
FormEncodeChar(s) ==
  IF ~IsLit(s) THEN <<s>>
  ELSE IF s.lit = " " THEN Str(<<"+">>)
  ELSE IF s.lit = "/" THEN Str(<<"%", "2", "F">>)
  ELSE IF s.lit = ":" THEN Str(<<"%", "3", "A">>)
  ELSE IF s.lit = "?" THEN Str(<<"%", "3", "F">>)
  ELSE IF s.lit = "&" THEN Str(<<"%", "2", "6">>)
  ELSE IF s.lit = "=" THEN Str(<<"%", "3", "D">>)
  ELSE IF s.lit = "+" THEN Str(<<"%", "2", "B">>)
  ELSE IF s.lit = "%" THEN Str(<<"%", "2", "5">>)
  ELSE <<s>>

FormEncode(s) == Concat([i \in 1..Len(s) |-> FormEncodeChar(s[i])])

\* URLSearchParams.prototype.toString of the params built from obj.
SearchParamsToString(obj) ==
  JoinWith([i \in 1..Len(obj) |->
              FormEncode(obj[i][1]) \o Str(<<"=">>) \o FormEncode(obj[i][2])],
           Str(<<"&">>))

RECURSIVE FormDecode(_)
\* The parser's percent-decoding, for the escapes FormEncodeChar writes.
FormDecode(s) ==
  IF s = <<>> THEN <<>>
  ELSE IF s[1] = Lit("+") THEN Str(<<" ">>) \o FormDecode(Tail(s))
  ELSE IF s[1] = Lit("%") /\ Len(s) >= 3
  THEN LET hex == SubSeq(s, 2, 3)
           c == IF hex = Str(<<"2", "F">>) THEN "/"
                ELSE IF hex = Str(<<"3", "A">>) THEN ":"
                ELSE IF hex = Str(<<"3", "F">>) THEN "?"
                ELSE IF hex = Str(<<"2", "6">>) THEN "&"
                ELSE IF hex = Str(<<"3", "D">>) THEN "="
                ELSE IF hex = Str(<<"2", "B">>) THEN "+"
                ELSE "%"
       IN Str(<<c>>) \o FormDecode(SubSeq(s, 4, Len(s)))
  ELSE <<s[1]>> \o FormDecode(Tail(s))

\* The query parameters of a URL, as the receiving side parses them: the
\* text after the first "?", split at "&", each pair split at its first "=".
QueryOf(url) ==
  LET qs == {i \in 1..Len(url) : url[i] = Lit("?")}
  IN IF qs = {} THEN <<>>
     ELSE SubSeq(url, (CHOOSE k \in qs : \A j \in qs : k <= j) + 1, Len(url))

ParsePair(p) ==
  LET eqs == {i \in 1..Len(p) : p[i] = Lit("=")}
  IN IF eqs = {} THEN <<FormDecode(p), <<>>>>
     ELSE LET e == CHOOSE k \in eqs : \A j \in eqs : k <= j
          IN <<FormDecode(SubSeq(p, 1, e - 1)),
               FormDecode(SubSeq(p, e + 1, Len(p)))>>

ParseQuery(url) ==
  LET pairs == SelectSeq(SplitOn(QueryOf(url), "&"), LAMBDA p : p # <<>>)
  IN [i \in 1..Len(pairs) |-> ParsePair(pairs[i])]

\* ------------------------------------------------------ optional values

\* A property that may be undefined (absent from the JSON text).
None == [has |-> FALSE, v |-> ""]
Some(x) == [has |-> TRUE, v |-> x]
\* JavaScript truthiness of an optional string.
Truthy(o) == o.has /\ o.v # ""

\* Results of calls that may throw: a value, or the thrown Error's message
\* as the sequence of the fragments it was put together from, outermost
\* prefix first.
Ok(x) == [ok |-> TRUE, val |-> <<x>>, err |-> <<>>]
Throw(msg) == [ok |-> FALSE, val |-> <<>>, err |-> msg]

\* ------------------------------------------------------- configuration

\* config.urlConfig, a UrlConfig or undefined (the empty sequence).
UrlConfig(pathPrefix, tokenParam, additionalParams) ==
  <<[pathPrefix |-> pathPrefix, tokenParam |-> tokenParam,
     additionalParams |-> additionalParams]>>
NoUrlConfig == <<>>

\* Error messages of src/lib/jwe.ts.
MsgSecretMissing ==
  "Shared secret for signing is missing in the environment configuration."
MsgKeyMissing ==
  "Encryption public key is missing in the environment configuration (config.keys.enc.publicKey)."
MsgKeyImportPrefix == "Failed to import encryption public key: "
MsgSignPrefix == "Payload signing failed: "
MsgGeneratePrefix == "Signed and encrypted token generation failed: "
MsgChildDomainMissing ==
  "Child domain is missing in the environment configuration."

\* ------------------------------------------------- constructLaunchUrl

DefaultTokenParam == Str(<<"t", "o", "k", "e", "n">>)

\* config.urlConfig?.pathPrefix || "", config.urlConfig?.tokenParam ||
\* "token", config.urlConfig?.additionalParams || {}
PathPrefixOf(config) ==
  IF config.urlConfig = <<>> THEN <<>> ELSE config.urlConfig[1].pathPrefix
TokenParamOf(config) ==
  IF config.urlConfig = <<>> \/ config.urlConfig[1].tokenParam = <<>>
  THEN DefaultTokenParam
  ELSE config.urlConfig[1].tokenParam
AdditionalParamsOf(config) ==
  IF config.urlConfig = <<>> THEN <<>>
  ELSE config.urlConfig[1].additionalParams

\* baseUrl.endsWith("/") ? baseUrl.slice(0, -1) : baseUrl
CleanBaseUrl(baseUrl) ==
  IF EndsWith(baseUrl, "/") THEN DropLast(baseUrl) ELSE baseUrl

\* The path part: a leading "/" is added when the prefix is not empty and
\* has none; a bare "/" becomes the empty path.
PathPart(pathPrefix) ==
  LET withSlash == IF pathPrefix # <<>> /\ ~StartsWith(pathPrefix, "/")
                   THEN Str(<<"/">>) \o pathPrefix
                   ELSE pathPrefix
  IN IF withSlash = Str(<<"/">>) THEN <<>> ELSE withSlash

\* The object { [tokenParam]: token, ...additionalParams }.
UrlParamsObject(token, config) ==
  ObjSpread(ObjSet(<<>>, TokenParamOf(config), token),
            AdditionalParamsOf(config))

constructLaunchUrl(token, config) ==
  IF config.childDomain = <<>>
  THEN Throw(<<MsgChildDomainMissing>>)
  ELSE Ok(CleanBaseUrl(config.childDomain)
          \o PathPart(PathPrefixOf(config))
          \o Str(<<"?">>)
          \o SearchParamsToString(UrlParamsObject(token, config)))

\* ------------------------------------------------ JOSE: signing (JWS)

\* Lifetime the route gives a token when config.tokenExpiration is unset.
DefaultTokenExpiration == 300
\* secs("15m"): the lifetime the signing step uses when config.expiredTime
\* is unset.
FifteenMinutes == 900

\* config.expiredTime is no field of the EnvironmentConfig type; the JSON
\* may hold nothing (or 0, or ""), a time span such as "5m" (v its
\* seconds), a number (v an absolute time) or a string that is no span.
ExpUnset == [kind |-> "unset", v |-> 0]
ExpSpan(n) == [kind |-> "span", v |-> n]
ExpAbs(n) == [kind |-> "abs", v |-> n]
ExpBad == [kind |-> "bad", v |-> 0]

\* Algorithms jose signs with when the key is a Uint8Array secret.
HmacAlgorithms == {"HS256", "HS384", "HS512"}
\* config.signAlgorithm || "HS256"
SigningAlgorithmOf(config) ==
  IF config.signAlgorithm = "" THEN "HS256" ELSE config.signAlgorithm

\* SignJWT#setExpirationTime(config.expiredTime || "15m") evaluated when
\* the clock reads t: a number is taken as the expiration time itself, a
\* time span is added to the current time.
ExpirationTimeClaim(config, t) ==
  IF config.expiredTime.kind = "abs" THEN config.expiredTime.v
  ELSE IF config.expiredTime.kind = "span" THEN t + config.expiredTime.v
  ELSE t + FifteenMinutes

\* SignedClaims with one constant in place of crypto.randomUUID().
SignedClaimsFixedJti(payload, config, tIat, tExp, tNbf, jti) ==
  [session |-> payload.session,
   identityKey |-> payload.identityKey,
   customer |-> payload.customer,
   iat |-> tIat,
   sub |-> config.clientId,
   iss |-> config.clientId,
   exp |-> ExpirationTimeClaim(config, tExp),
   nbf |-> tNbf,
   jti |-> 0]

\* The JWT Claims Set that is signed: the payload's own properties, then
\* iat, sub, iss, exp, nbf and jti as the builder sets them, each setter
\* replacing a property of the same name.  tIat, tExp and tNbf are the
\* clock readings of setIssuedAt, setExpirationTime and setNotBefore.
SignedClaims(payload, config, tIat, tExp, tNbf, jti) ==
  [session |-> payload.session,
   identityKey |-> payload.identityKey,
   customer |-> payload.customer,
   iat |-> tIat,
   sub |-> config.clientId,
   iss |-> config.clientId,
   exp |-> ExpirationTimeClaim(config, tExp),
   nbf |-> tNbf,
   jti |-> jti]

JwsHeader(config) ==
  [alg |-> SigningAlgorithmOf(config), apiKey |-> config.clientId]

\* The HMAC of the signing input under the secret.
Mac(secret, header, claims) ==
  [secret |-> secret, header |-> header, claims |-> claims]

\* Compact JWS serialization: header.payload.signature
CompactJws(header, claims, secret) ==
  <<Blk("jwsHeader", header), Dot, Blk("jwsPayload", claims), Dot,
    Blk("jwsSignature", Mac(secret, header, claims))>>

\* new SignJWT(payload).setProtectedHeader(..)...sign(secret): the compact
\* JWS, or the error of a time span that does not parse or of an
\* algorithm that cannot sign with a secret.
SignJWT(payload, config, secret, tIat, tExp, tNbf, jti) ==
  IF config.expiredTime.kind = "bad"
  THEN Throw(<<"Invalid time period format">>)
  ELSE IF SigningAlgorithmOf(config) \notin HmacAlgorithms
  THEN Throw(<<"Key for the algorithm must be a key object, not a secret">>)
  ELSE Ok(CompactJws(JwsHeader(config),
                     SignedClaims(payload, config, tIat, tExp, tNbf, jti),
                     secret))

\* prepareSigningSecret without its guard.
prepareSigningSecretUnchecked(config) == Ok(config.clientSecret)

\* prepareSigningSecret
prepareSigningSecret(config) ==
  IF config.clientSecret = ""
  THEN Throw(<<MsgSecretMissing>>)
  ELSE Ok(config.clientSecret)

\* --------------------------------------------- JOSE: encryption (JWE)

RsaKeyAlgorithms == {"RSA-OAEP", "RSA-OAEP-256", "RSA-OAEP-384", "RSA-OAEP-512"}
ContentAlgorithms == {"A128GCM", "A192GCM", "A256GCM"}
\* PEM texts: a well-formed RSA SPKI key, and text that is no SPKI key.
PemRsa == "PEM_RSA_SPKI"
PemGarbage == "PEM_GARBAGE"

\* config.keyEncryptionAlgorithm || "RSA-OAEP-256"
KeyEncryptionAlgorithmOf(config) ==
  IF config.keyEncryptionAlgorithm = "" THEN "RSA-OAEP-256"
  ELSE config.keyEncryptionAlgorithm
\* config.contentEncryptionAlgorithm || "A256GCM"
ContentEncryptionAlgorithmOf(config) ==
  IF config.contentEncryptionAlgorithm = "" THEN "A256GCM"
  ELSE config.contentEncryptionAlgorithm

\* jose.importSPKI(pem, alg)
importSPKI(pem, alg) ==
  IF pem # PemRsa THEN Throw(<<"\"spki\" must be SPKI formatted string">>)
  ELSE IF alg \notin RsaKeyAlgorithms
  THEN Throw(<<"Invalid or unsupported \"alg\" (Algorithm) value">>)
  ELSE Ok([pem |-> pem, alg |-> alg])

JweHeader(config) ==
  [alg |-> KeyEncryptionAlgorithmOf(config),
   enc |-> ContentEncryptionAlgorithmOf(config),
   apiKey |-> config.clientId]

\* new CompactEncrypt(plaintext).setProtectedHeader(header).encrypt(key)
\* with the content encryption key cek and the initialization vector iv it
\* generates: header.encryptedKey.iv.ciphertext.tag
CompactEncrypt(plaintext, header, key, cek, iv) ==
  IF header.enc \notin ContentAlgorithms
  THEN Throw(<<"Unsupported JWE Content Encryption Algorithm">>)
  ELSE Ok(<<Blk("jweHeader", header), Dot,
            Blk("jweEncryptedKey", [pem |-> key.pem, cek |-> cek]), Dot,
            Blk("jweIv", [iv |-> iv]), Dot,
            Blk("jweCiphertext", [cek |-> cek, iv |-> iv, pt |-> plaintext]), Dot,
            Blk("jweTag", [cek |-> cek, iv |-> iv, aad |-> header])>>)

\* -------------------------------------------------------------- logger

\* The values of a log call's metadata: a short string such as a client
\* id or an algorithm name (atom), a text such as a URL (text), the JSON
\* text of an object (json), an Error's message (error).
MetaAtom(a) == [kind |-> "atom", v |-> <<a>>]
MetaText(t) == [kind |-> "text", v |-> t]
MetaJson(x) == [kind |-> "json", v |-> <<x>>]
MetaError(msg) == [kind |-> "error", v |-> msg]
Redacted == MetaAtom("[REDACTED]")

\* redactSensitiveInfo: the properties token, apiSecret and publicKey of
\* the metadata object itself are replaced, nothing else.
redactSensitiveInfo(meta) ==
  [i \in 1..Len(meta) |->
     IF meta[i][1] \in {"token", "apiSecret", "publicKey"}
     THEN <<meta[i][1], Redacted>> ELSE meta[i]]

\* logInfo(message, meta) and logError(message, error, meta): the call as
\* the logger receives it (meta) and the line it writes to the console
\* (written).
logInfo(message, meta) ==
  [level |-> "info", message |-> message, meta |-> meta,
   written |-> redactSensitiveInfo(meta)]
logError(message, error, meta) ==
  [level |-> "error", message |-> message, meta |-> meta,
   written |-> Append(redactSensitiveInfo(meta), <<"error", MetaError(error)>>)]

\* ------------------------------- generateSignedAndEncryptedToken

OperationName == "generateSignedAndEncryptedToken (Sign then Encrypt)"
\* { clientId: config.clientId } and { clientId: config.clientId, alg }
ClientMeta(config) == <<<<"clientId", MetaAtom(config.clientId)>>>>
ClientAlgMeta(config) ==
  <<<<"clientId", MetaAtom(config.clientId)>>,
    <<"alg", MetaAtom(SigningAlgorithmOf(config))>>>>

\* The calls constructLaunchUrl(token, config) makes of the logger.
constructLaunchUrlLog(token, config) ==
  LET u == constructLaunchUrl(token, config)
  IN IF ~u.ok
     THEN <<logError(<<"URL construction failed: Child domain missing">>,
                     <<"null">>, ClientMeta(config))>>
     ELSE <<logInfo(<<"Launch URL constructed">>,
                    Append(ClientMeta(config), <<"url", MetaText(u.val[1])>>))>>

MsgKeyImportSuffix ==
  ". Ensure it's a valid SPKI PEM format for the algorithm."

\* new TextEncoder().encode(s): every character of a compact
\* serialization is ASCII, so the bytes are its characters, one each.
Utf8Encode(s) == [i \in 1..Len(s) |-> s[i]]

\* One call of generateSignedAndEncryptedToken: the promise it is waiting
\* for (pc), its local variables, the stages it has started so far and
\* the calls it has made of the logger.
NoGen ==
  [pc |-> "none", payload |-> <<>>, config |-> <<>>, stages |-> <<>>,
   signRes |-> <<>>, jws |-> <<>>, key |-> <<>>, plaintext |-> <<>>,
   result |-> <<>>, err |-> <<>>, log |-> <<>>]

\* GenThrow with the cause's message dropped, as for a cause that is no
\* Error.
GenThrowUnknown(g, stages, cause) ==
  [g EXCEPT !.pc = "thrown", !.stages = stages,
            !.err = <<MsgGeneratePrefix,
                      "Unknown error during signed and encrypted token generation">>]

\* The outer catch: the call rejects with the cause's message prefixed.
GenThrow(g, stages, cause) ==
  [g EXCEPT !.pc = "thrown", !.stages = stages,
            !.err = <<MsgGeneratePrefix>> \o cause,
            !.log = Append(@, logError(<<OperationName, " failed">>, cause,
                                       ClientMeta(g.config[1])))]

\* From the call up to `await ... .sign(signingSecret)`.
GenStart(payload, config, tIat, tExp, tNbf, jti) ==
  LET g == [NoGen EXCEPT !.payload = <<payload>>, !.config = <<config>>,
              !.log = <<logInfo(<<"Starting ", OperationName>>, ClientMeta(config)),
                        logInfo(<<"Preparing payload for signing">>,
                                Append(ClientMeta(config),
                                       <<"payload", MetaJson(payload)>>))>>]
      secret == prepareSigningSecret(config)
  IN IF ~secret.ok
     THEN GenThrow(g, <<"prepareSigningSecret">>, secret.err)
     ELSE [g EXCEPT !.pc = "sign",
                    !.stages = <<"prepareSigningSecret", "sign">>,
                    !.signRes = <<SignJWT(payload, config, secret.val[1],
                                          tIat, tExp, tNbf, jti)>>]

\* GenSignDone with the signing error swallowed: the call goes on with an
\* undefined jws, which TextEncoder encodes as no bytes.
GenSignDoneSwallow(g) ==
  LET r == g.signRes[1]
  IN [g EXCEPT !.pc = "import",
               !.jws = IF r.ok THEN r.val ELSE <<<<>>>>,
               !.stages = Append(g.stages, "importKey")]

\* The signing promise settles; on success the call goes on to
\* importEncryptionPublicKey, up to `await jose.importSPKI(..)`.
GenSignDone(g) ==
  LET config == g.config[1]
      r == g.signRes[1]
      stages == Append(g.stages, "importKey")
      failed == logError(<<"Payload signing (JWS creation) failed">>, r.err,
                         ClientAlgMeta(config))
      signed == logInfo(<<"Payload signed successfully (JWS created)">>,
                        ClientAlgMeta(config))
  IN IF ~r.ok
     THEN GenThrow([g EXCEPT !.log = Append(@, failed)], g.stages,
                   <<MsgSignPrefix>> \o r.err)
     ELSE IF config.encPublicKey = ""
     THEN GenThrow([g EXCEPT !.jws = r.val, !.log = Append(@, signed)],
                   stages, <<MsgKeyMissing>>)
     ELSE [g EXCEPT !.pc = "import", !.jws = r.val, !.stages = stages,
                    !.log = Append(@, signed)]

\* GenImportDone encrypting JSON.stringify(payload), as the encrypt-only
\* generateJweToken did.
GenImportDoneEncryptOnly(g) ==
  LET config == g.config[1]
      r == importSPKI(config.encPublicKey, KeyEncryptionAlgorithmOf(config))
  IN IF ~r.ok
     THEN GenThrow(g, g.stages,
                   <<MsgKeyImportPrefix>> \o r.err \o <<MsgKeyImportSuffix>>)
     ELSE [g EXCEPT !.pc = "encrypt", !.key = r.val,
                    !.plaintext = <<Utf8Encode(<<Blk("json", g.payload[1])>>)>>,
                    !.stages = Append(g.stages, "encrypt")]

\* The key import settles; on success the JWS bytes are handed to
\* CompactEncrypt, up to `await ... .encrypt(publicKey)`.
GenImportDone(g) ==
  LET config == g.config[1]
      r == importSPKI(config.encPublicKey, KeyEncryptionAlgorithmOf(config))
      failed == logError(<<"Public key import error during JWE preparation">>,
                         r.err,
                         <<<<"algorithm",
                             MetaAtom(KeyEncryptionAlgorithmOf(config))>>>>)
  IN IF ~r.ok
     THEN GenThrow([g EXCEPT !.log = Append(@, failed)], g.stages,
                   <<MsgKeyImportPrefix>> \o r.err \o <<MsgKeyImportSuffix>>)
     ELSE [g EXCEPT !.pc = "encrypt", !.key = r.val,
                    !.plaintext = <<Utf8Encode(g.jws[1])>>,
                    !.stages = Append(g.stages, "encrypt")]

\* GenEncryptDone trying the encryption a second time when it fails.
GenEncryptDoneRetry(g, cek, iv) ==
  LET r == CompactEncrypt(g.plaintext[1], JweHeader(g.config[1]),
                          g.key[1], cek, iv)
  IN IF r.ok THEN [g EXCEPT !.pc = "returned", !.result = r.val]
     ELSE IF Len(g.stages) < 5
     THEN [g EXCEPT !.stages = Append(g.stages, "encrypt")]
     ELSE GenThrow(g, g.stages, r.err)

\* The encryption promise settles: the call returns the JWE or rejects.
GenEncryptDone(g, cek, iv) ==
  LET r == CompactEncrypt(g.plaintext[1], JweHeader(g.config[1]),
                          g.key[1], cek, iv)
  IN IF ~r.ok
     THEN GenThrow(g, g.stages, r.err)
     ELSE [g EXCEPT !.pc = "returned", !.result = r.val,
                    !.log = Append(@, logInfo(<<"Completed ", OperationName>>,
                                              ClientMeta(g.config[1])))]

\* ------------------------------------------- loadAndValidateConfig

MsgEnvUnset == "CLIENT_CONFIGURATIONS environment variable is not set."
MsgLoadPrefix == "Failed to parse or validate CLIENT_CONFIGURATIONS: "
MsgJsonSyntax == "Unexpected token in JSON"
MsgBadRoot ==
  "Invalid configuration structure: Root object or clients array is missing."
MsgBadClient ==
  "Invalid client configuration: Missing name or environments array."
MsgBadEnvironmentPrefix == "Invalid environment configuration in client "
MsgBadEnvironmentSuffix ==
  ": Missing required fields (name, childDomain, apiKey, apiSecret, publicKey)."

\* EnvironmentValid without the test of clientSecret.
EnvironmentValidNoSecret(env) ==
  /\ env.name # ""
  /\ env.childDomain # <<>>
  /\ env.clientId # ""
  /\ env.encPublicKey # ""
  /\ env.sigPublicKey # ""

\* EnvironmentValid without the test of childDomain.
EnvironmentValidNoDomain(env) ==
  /\ env.name # ""
  /\ env.clientId # ""
  /\ env.clientSecret # ""
  /\ env.encPublicKey # ""
  /\ env.sigPublicKey # ""

\* (env) => env.name && env.childDomain && env.clientId &&
\*          env.clientSecret && env.keys.enc.publicKey && env.keys.sig.publicKey
EnvironmentValid(env) ==
  /\ env.name # ""
  /\ env.childDomain # <<>>
  /\ env.clientId # ""
  /\ env.clientSecret # ""
  /\ env.encPublicKey # ""
  /\ env.sigPublicKey # ""

\* (client) => client.name && Array.isArray(client.environments);
\* environments is the array, or the empty sequence when it is no array.
ClientValid(client) == client.name # "" /\ client.environments # <<>>

\* The try block: JSON.parse and the validation of what it returns.
\* source.kind tells what the variable's text is: "badJson" no JSON,
\* "noClients" JSON without a clients array, "root" a RootConfig.
ParseAndValidate(source) ==
  IF source.kind = "badJson" THEN Throw(<<MsgJsonSyntax>>)
  ELSE IF source.kind = "noClients" THEN Throw(<<MsgBadRoot>>)
  ELSE IF \E i \in 1..Len(source.clients) : ~ClientValid(source.clients[i])
  THEN Throw(<<MsgBadClient>>)
  ELSE LET bad == {i \in 1..Len(source.clients) :
                    \E j \in 1..Len(source.clients[i].environments[1]) :
                      ~EnvironmentValid(source.clients[i].environments[1][j])}
       IN IF bad # {}
          THEN Throw(<<MsgBadEnvironmentPrefix,
                       source.clients[CHOOSE k \in bad : \A j \in bad : k <= j].name,
                       MsgBadEnvironmentSuffix>>)
          ELSE Ok(source.clients)

\* loadAndValidateConfig that throws its error without keeping it.
loadAndValidateConfigForgetError(c, source) ==
  IF c.parsedConfig # <<>>
  THEN [cache |-> c, res |-> Ok(c.parsedConfig[1])]
  ELSE IF source.kind = "unset"
  THEN [cache |-> [c EXCEPT !.reads = @ + 1],
        res |-> Throw(<<MsgEnvUnset>>)]
  ELSE LET r == ParseAndValidate(source)
       IN IF r.ok
          THEN [cache |-> [c EXCEPT !.parsedConfig = r.val, !.reads = @ + 1],
                res |-> r]
          ELSE [cache |-> [c EXCEPT !.reads = @ + 1],
                res |-> Throw(<<MsgLoadPrefix>> \o r.err)]

\* loadAndValidateConfig without its memoization: every call reads and
\* parses the variable.
loadAndValidateConfigEveryTime(c, source) ==
  IF source.kind = "unset"
  THEN [cache |-> [c EXCEPT !.parseError = <<<<MsgEnvUnset>>>>,
                            !.reads = @ + 1],
        res |-> Throw(<<MsgEnvUnset>>)]
  ELSE LET r == ParseAndValidate(source)
       IN IF r.ok
          THEN [cache |-> [c EXCEPT !.parsedConfig = r.val, !.reads = @ + 1],
                res |-> r]
          ELSE [cache |-> [c EXCEPT !.parseError = <<<<MsgLoadPrefix>> \o r.err>>,
                                    !.reads = @ + 1],
                res |-> Throw(<<MsgLoadPrefix>> \o r.err)]

\* loadAndValidateConfig on the cache c = [parsedConfig, parseError,
\* reads]: the cache after the call and what the call returns or throws.
\* reads counts the times the environment variable was read.
loadAndValidateConfig(c, source) ==
  IF c.parsedConfig # <<>>
  THEN [cache |-> c, res |-> Ok(c.parsedConfig[1])]
  ELSE IF c.parseError # <<>>
  THEN [cache |-> c, res |-> Throw(c.parseError[1])]
  ELSE IF source.kind = "unset"
  THEN [cache |-> [c EXCEPT !.parseError = <<<<MsgEnvUnset>>>>,
                            !.reads = @ + 1],
        res |-> Throw(<<MsgEnvUnset>>)]
  ELSE LET r == ParseAndValidate(source)
       IN IF r.ok
          THEN [cache |-> [c EXCEPT !.parsedConfig = r.val, !.reads = @ + 1],
                res |-> r]
          ELSE [cache |-> [c EXCEPT !.parseError = <<<<MsgLoadPrefix>> \o r.err>>,
                                    !.reads = @ + 1],
                res |-> Throw(<<MsgLoadPrefix>> \o r.err)]

\* Array.prototype.find with the test x.name === name: the first
\* element so named, if any.
FindFirst(seq, name) ==
  LET hits == {i \in 1..Len(seq) : seq[i].name = name}
  IN IF hits = {} THEN <<>>
     ELSE <<seq[CHOOSE k \in hits : \A j \in hits : k <= j]>>

\* getEnvironmentConfig(clientName, environmentName) on cache c: the
\* cache afterwards and the EnvironmentConfig found (or undefined), or
\* the error loadAndValidateConfig throws.
getEnvironmentConfig(c, source, clientName, environmentName) ==
  LET l == loadAndValidateConfig(c, source)
  IN IF ~l.res.ok THEN l
     ELSE LET client == FindFirst(l.res.val[1], clientName)
              env == IF client = <<>> THEN <<>>
                     ELSE FindFirst(client[1].environments[1], environmentName)
          IN [cache |-> l.cache, res |-> Ok(env)]

\* getClients(): loadAndValidateConfig().clients
getClients(c, source) == loadAndValidateConfig(c, source)

\* getClientNames(): getClients().map((client) => client.name)
getClientNames(c, source) ==
  LET l == getClients(c, source)
  IN IF ~l.res.ok THEN l
     ELSE [cache |-> l.cache,
           res |-> Ok([k \in 1..Len(l.res.val[1]) |-> l.res.val[1][k].name])]

\* getEnvironmentsForClient(clientName): the client's environments, or
\* undefined when there is no such client.
getEnvironmentsForClient(c, source, clientName) ==
  LET l == getClients(c, source)
  IN IF ~l.res.ok THEN l
     ELSE LET client == FindFirst(l.res.val[1], clientName)
          IN [cache |-> l.cache,
              res |-> Ok(IF client = <<>> THEN <<>>
                         ELSE client[1].environments)]

\* getEnvironmentNamesForClient(clientName)
getEnvironmentNamesForClient(c, source, clientName) ==
  LET l == getEnvironmentsForClient(c, source, clientName)
  IN IF ~l.res.ok \/ l.res.val[1] = <<>> THEN l
     ELSE [cache |-> l.cache,
           res |-> Ok(<<[k \in 1..Len(l.res.val[1][1]) |->
                          l.res.val[1][1][k].name]>>)]

\* GET /api/health: 200 when the configuration loads, else 503 with the
\* loader's message.
HealthResponse(l) ==
  IF l.res.ok THEN [http |-> 200, status |-> "ok", message |-> <<>>]
  ELSE [http |-> 503, status |-> "error",
        message |-> <<"Health check failed: ">> \o l.res.err]

\* ------------------------------------------------------------ inputs

\* "https://d" written with one letter for the scheme and one for the host.
Domain == Str(<<"h", ":", "/", "/", "d">>)

\* An EnvironmentConfig as the JSON of the project's .env gives it, with
\* every optional property unset.
BaseEnv ==
  [name |-> "dev", childDomain |-> Domain, clientId |-> "client-1",
   clientSecret |-> "secret-1", encPublicKey |-> PemRsa,
   sigPublicKey |-> PemRsa, signAlgorithm |-> "",
   keyEncryptionAlgorithm |-> "", contentEncryptionAlgorithm |-> "",
   tokenExpiration |-> 0, expiredTime |-> ExpUnset, urlConfig |-> NoUrlConfig]

\* A second environment of the same client, every option set.
ProdEnv ==
  [BaseEnv EXCEPT !.name = "prod",
     !.childDomain = Domain \o Str(<<"/">>),
     !.clientId = "client-2", !.clientSecret = "secret-2",
     !.signAlgorithm = "HS512", !.keyEncryptionAlgorithm = "RSA-OAEP",
     !.contentEncryptionAlgorithm = "A128GCM",
     !.tokenExpiration = 60, !.expiredTime = ExpSpan(60),
     !.urlConfig = UrlConfig(Str(<<"p">>), Str(<<"t">>),
                             <<<<Str(<<"s">>), Str(<<"a", " ", "b">>)>>>>)]

\* ------------------------------------- POST /api/token/generate

\* ErrorResponse without the request's id.
ErrorResponseNoId(http, code, message, details, timestamp, requestId) ==
  [http |-> http, status |-> "error", code |-> code, message |-> message,
   details |-> details, token |-> <<>>, url |-> <<>>,
   timestamp |-> <<timestamp>>, requestId |-> <<>>]

\* The body of an error response and its HTTP status.
ErrorResponse(http, code, message, details, timestamp, requestId) ==
  [http |-> http, status |-> "error", code |-> code, message |-> message,
   details |-> details, token |-> <<>>, url |-> <<>>,
   timestamp |-> <<timestamp>>, requestId |-> <<requestId>>]

SuccessResponse(token, url) ==
  [http |-> 200, status |-> "success", code |-> "", message |-> <<>>,
   details |-> <<>>, token |-> <<token>>, url |-> <<url>>,
   timestamp |-> <<>>, requestId |-> <<>>]

\* process.env.NODE_ENV === "development" ? errorMessage : undefined
DetailsFor(nodeEnv, errorMessage) ==
  IF nodeEnv = "development" THEN <<errorMessage>> ELSE <<>>

\* One request: where the handler stands (pc), what it was sent, its
\* local variables, the route-level stages it has entered, its call of
\* generateSignedAndEncryptedToken, the logger calls of its
\* constructLaunchUrl and its response.
NoRequest ==
  [pc |-> "idle", body |-> <<>>, timestamp |-> 0, requestId |-> 0,
   config |-> <<>>, payload |-> <<>>, trace |-> <<>>, gen |-> NoGen,
   log |-> <<>>, resp |-> <<>>]

Respond(r, resp) == [r EXCEPT !.pc = "done", !.resp = <<resp>>]

\* !clientName || !environment || !sessionPayload || !userPayload
MissingFields(body) ==
  \/ body.clientName = ""
  \/ body.environment = ""
  \/ ~Truthy(body.sessionPayload)
  \/ body.userPayload = <<>>

\* environmentConfig.tokenExpiration || 300
TokenExpirationOf(config) ==
  IF config.tokenExpiration = 0 THEN DefaultTokenExpiration
  ELSE config.tokenExpiration

\* CombinedPayload with the user payload's fields crossed.
CombinedPayloadCrossed(body, config, nowSeconds) ==
  LET user == body.userPayload[1]
  IN [session |-> body.sessionPayload.v,
      identityKey |-> Some(IF Truthy(user.customer)
                           THEN user.customer.v ELSE ""),
      customer |-> user.identityKey,
      iat |-> nowSeconds,
      exp |-> nowSeconds + TokenExpirationOf(config)]

\* The combinedPayload of step 4, nowSeconds being the clock's reading.
CombinedPayload(body, config, nowSeconds) ==
  LET user == body.userPayload[1]
  IN [session |-> body.sessionPayload.v,
      identityKey |-> Some(IF Truthy(user.identityKey)
                           THEN user.identityKey.v ELSE ""),
      customer |-> user.customer,
      iat |-> nowSeconds,
      exp |-> nowSeconds + TokenExpirationOf(config)]

\* The TypeError of `const { clientName, .. } = requestBody` when
\* req.json() gave null.
MsgDestructureNull ==
  "Cannot destructure property 'clientName' of 'requestBody' as it is null."

\* The handler from the settling of `await req.json()` to its first
\* response or to `await generateSignedAndEncryptedToken(..)`: the
\* request and the configuration cache afterwards.  t[1] is the clock's
\* reading for nowSeconds, t[2..4] those of the signing step; jti is the
\* fresh UUID.
RouteHandle(r, c, env, t, jti) ==
  LET b == r.body[1]
      bad(code, message, cache, trace) ==
        [req |-> Respond([r EXCEPT !.trace = trace],
                         ErrorResponse(400, code, message, <<>>,
                                       r.timestamp, r.requestId)),
         cache |-> cache]
  IN IF ~b.parsed
     THEN bad("INVALID_REQUEST_BODY", <<"Invalid JSON in request body.">>,
              c, <<>>)
     ELSE IF b.isNull
     THEN [req |-> Respond(r, ErrorResponse(500, "INTERNAL_SERVER_ERROR",
                     <<"An unexpected internal server error occurred.">>,
                     DetailsFor(env.nodeEnv, <<MsgDestructureNull>>),
                     r.timestamp, r.requestId)),
           cache |-> c]
     ELSE IF MissingFields(b)
     THEN bad("MISSING_FIELDS",
              <<"Missing required fields: clientName, environment, sessionPayload, userPayload.">>,
              c, <<>>)
     ELSE LET l == loadAndValidateConfig(c, env.source)
              e == getEnvironmentConfig(l.cache, env.source,
                                        b.clientName, b.environment)
          IN IF ~l.res.ok
             THEN bad("INVALID_CONFIGURATION",
                      <<"Configuration error: ">> \o l.res.err,
                      l.cache, <<"config">>)
             ELSE IF e.res.val[1] = <<>>
             THEN bad("INVALID_CONFIGURATION",
                      <<"Configuration error: ", "Configuration not found for ",
                        b.clientName, "/", b.environment>>,
                      e.cache, <<"config">>)
             ELSE LET config == e.res.val[1][1]
                      payload == CombinedPayload(b, config, t[1])
                  IN [req |-> [r EXCEPT !.pc = "generate",
                                 !.config = <<config>>,
                                 !.payload = <<payload>>,
                                 !.trace = <<"config", "assemble", "generate">>,
                                 !.gen = GenStart(payload, config,
                                                  t[2], t[3], t[4], jti)],
                      cache |-> e.cache]

\* RouteResume answering 200 with the token alone.
RouteResumeTokenOnly(r, env) ==
  IF r.gen.pc = "thrown"
  THEN Respond(r, ErrorResponse(500, "TOKEN_GENERATION_ERROR",
                                <<"Failed to generate JWE token.">>,
                                DetailsFor(env.nodeEnv, r.gen.err),
                                r.timestamp, r.requestId))
  ELSE Respond(r, [SuccessResponse(r.gen.result[1], <<>>) EXCEPT !.url = <<>>])

\* RouteResume calling constructLaunchUrl before it looks at the outcome
\* of the generation.
RouteResumeUrlFirst(r, env) ==
  LET r2 == [r EXCEPT !.trace = Append(@, "url")]
  IN IF r.gen.pc = "thrown"
     THEN Respond(r2, ErrorResponse(500, "TOKEN_GENERATION_ERROR",
                                    <<"Failed to generate JWE token.">>,
                                    DetailsFor(env.nodeEnv, r.gen.err),
                                    r.timestamp, r.requestId))
     ELSE Respond(r2, SuccessResponse(r.gen.result[1],
                        constructLaunchUrl(r.gen.result[1], r.config[1]).val[1]))

\* RouteResume answering a failed generation as a client error.
RouteResumeClientError(r, env) ==
  IF r.gen.pc = "thrown"
  THEN Respond(r, ErrorResponse(400, "TOKEN_GENERATION_ERROR",
                                <<"Failed to generate JWE token.">>,
                                DetailsFor(env.nodeEnv, r.gen.err),
                                r.timestamp, r.requestId))
  ELSE LET jweToken == r.gen.result[1]
           u == constructLaunchUrl(jweToken, r.config[1])
       IN Respond([r EXCEPT !.trace = Append(@, "url")],
                  SuccessResponse(jweToken, u.val[1]))

\* The handler from the settling of generateSignedAndEncryptedToken to
\* its response.
RouteResume(r, env) ==
  IF r.gen.pc = "thrown"
  THEN Respond(r, ErrorResponse(500, "TOKEN_GENERATION_ERROR",
                                <<"Failed to generate JWE token.">>,
                                DetailsFor(env.nodeEnv, r.gen.err),
                                r.timestamp, r.requestId))
  ELSE LET jweToken == r.gen.result[1]
           u == constructLaunchUrl(jweToken, r.config[1])
           r2 == [r EXCEPT !.trace = Append(@, "url"),
                           !.log = constructLaunchUrlLog(jweToken, r.config[1])]
       IN IF ~u.ok
          THEN Respond(r2, ErrorResponse(500, "INTERNAL_SERVER_ERROR",
                         <<"An unexpected internal server error occurred.">>,
                         DetailsFor(env.nodeEnv, u.err),
                         r.timestamp, r.requestId))
          ELSE Respond(r2, SuccessResponse(jweToken, u.val[1]))

\* ---------------------------------------------------------- input sets

\* The text of NEXT_PUBLIC_CLIENT_CONFIGURATIONS.
RootOf(devEnv) ==
  [kind |-> "root",
   clients |-> <<[name |-> "Acme", environments |-> <<<<devEnv, ProdEnv>>>>]>>]

TokenCollision ==
  UrlConfig(<<>>, <<>>, <<<<DefaultTokenParam, Str(<<"x">>)>>>>)

DevEnvs ==
  {BaseEnv,
   [BaseEnv EXCEPT !.urlConfig = TokenCollision],
   [BaseEnv EXCEPT !.tokenExpiration = 900],
   [BaseEnv EXCEPT !.signAlgorithm = "RS256"],
   [BaseEnv EXCEPT !.encPublicKey = PemGarbage],
   [BaseEnv EXCEPT !.contentEncryptionAlgorithm = "XC20P"],
   [BaseEnv EXCEPT !.childDomain = <<>>],
   [BaseEnv EXCEPT !.clientSecret = ""],
   [BaseEnv EXCEPT !.encPublicKey = ""]}

Sources ==
  {[kind |-> "unset", clients |-> <<>>],
   [kind |-> "badJson", clients |-> <<>>],
   [kind |-> "noClients", clients |-> <<>>],
   [kind |-> "root", clients |-> <<[name |-> "", environments |-> <<>>]>>]}
  \cup {RootOf(e) : e \in DevEnvs}

NodeEnvs == {"development", "production"}

UserPayloads ==
  {[identityKey |-> k, customer |-> c] :
     k \in {None, Some("u1")}, c \in {None, Some("c1")}}

\* Request bodies: text that is no JSON, the JSON text null, and objects.
Body(clientName, environment, sessionPayload, userPayload) ==
  [parsed |-> TRUE, isNull |-> FALSE,
   clientName |-> clientName, environment |-> environment,
   sessionPayload |-> sessionPayload, userPayload |-> userPayload]

Bodies ==
  {[parsed |-> FALSE, isNull |-> FALSE, clientName |-> "", environment |-> "",
    sessionPayload |-> None, userPayload |-> <<>>],
   [parsed |-> TRUE, isNull |-> TRUE, clientName |-> "", environment |-> "",
    sessionPayload |-> None, userPayload |-> <<>>],
   Body("", "dev", Some("s1"), <<[identityKey |-> Some("u1"), customer |-> Some("c1")]>>),
   Body("Acme", "dev", None, <<[identityKey |-> Some("u1"), customer |-> Some("c1")]>>),
   Body("Acme", "dev", Some("s1"), <<>>),
   Body("Nope", "dev", Some("s1"), <<[identityKey |-> Some("u1"), customer |-> Some("c1")]>>),
   Body("Acme", "qa", Some("s1"), <<[identityKey |-> Some("u1"), customer |-> Some("c1")]>>),
   Body("Acme", "prod", Some("s2"), <<[identityKey |-> Some("u2"), customer |-> Some("c2")]>>)}
  \cup {Body("Acme", "dev", Some("s1"), <<u>>) : u \in UserPayloads}

\* ------------------------------------------------------------- state

VARIABLES
  env,    \* process.env: [source, nodeEnv]
  cache,  \* src/lib/config.ts: parsedConfig, parseError (and reads)
  now,    \* the wall clock, in seconds
  rnd,    \* how many random values (UUIDs, keys, IVs) were drawn
  reqs,   \* the requests of POST /api/token/generate
  call    \* direct calls of the library functions of src/lib/jwe.ts, or
          \* the calls made so far of the functions of src/lib/config.ts

vars == <<env, cache, now, rnd, reqs, call>>

EmptyCache == [parsedConfig |-> <<>>, parseError |-> <<>>, reads |-> 0]
NoCall ==
  [pc |-> "none", payload |-> <<>>, config |-> <<>>, gen |-> NoGen,
   url |-> <<>>, log |-> <<>>, history |-> <<>>]

\* Successive readings of the clock in one synchronous run: the clock
\* does not go back and passes at most one second boundary.
ClockReads(n) ==
  LET hi == IF now < MaxClock THEN now + 1 ELSE now
  IN {t \in [1..n -> now..hi] : \A i \in 1..(n - 1) : t[i] <= t[i + 1]}

Init ==
  /\ env \in [source : Sources, nodeEnv : NodeEnvs]
  /\ cache = EmptyCache
  /\ now = 0
  /\ rnd = 0
  /\ reqs = [i \in 1..NReq |-> NoRequest]
  /\ call = NoCall

\* Time passes.
Tick ==
  /\ now < MaxClock
  /\ now' = now + 1
  /\ UNCHANGED <<env, cache, rnd, reqs, call>>

\* POST is entered: timestamp and requestId are taken, then the handler
\* waits for `await req.json()`.  Requests are numbered by arrival.
Receive(i) ==
  /\ reqs[i].pc = "idle"
  /\ i > 1 => reqs[i - 1].pc # "idle"
  /\ \E b \in Bodies :
       reqs' = [reqs EXCEPT ![i] = [@ EXCEPT !.pc = "json", !.body = <<b>>,
                                      !.timestamp = now, !.requestId = rnd + 1]]
  /\ rnd' = rnd + 1
  /\ UNCHANGED <<env, cache, now, call>>

\* Handle reading the request body from a variable of the module that
\* the first request of the process has set.
HandleSharedBody(i) ==
  /\ reqs[i].pc = "json"
  /\ \E t \in ClockReads(4) :
       LET h == RouteHandle([reqs[i] EXCEPT !.body = reqs[1].body],
                            cache, env, t, rnd + 1)
       IN /\ reqs' = [reqs EXCEPT ![i] = [h.req EXCEPT !.body = reqs[i].body]]
          /\ cache' = h.cache
          /\ now' = IF h.req.pc = "generate" THEN t[4] ELSE now
          /\ rnd' = IF h.req.pc = "generate" /\ h.req.gen.signRes # <<>>
                    THEN rnd + 1 ELSE rnd
  /\ UNCHANGED <<env, call>>

Handle(i) ==
  /\ reqs[i].pc = "json"
  /\ \E t \in ClockReads(4) :
       LET h == RouteHandle(reqs[i], cache, env, t, rnd + 1)
       IN /\ reqs' = [reqs EXCEPT ![i] = h.req]
          /\ cache' = h.cache
          /\ now' = IF h.req.pc = "generate" THEN t[4] ELSE now
          /\ rnd' = IF h.req.pc = "generate" /\ h.req.gen.signRes # <<>>
                    THEN rnd + 1 ELSE rnd
  /\ UNCHANGED <<env, call>>

SignSettles(i) ==
  /\ reqs[i].pc = "generate" /\ reqs[i].gen.pc = "sign"
  /\ reqs' = [reqs EXCEPT ![i].gen = GenSignDone(@)]
  /\ UNCHANGED <<env, cache, now, rnd, call>>

ImportSettles(i) ==
  /\ reqs[i].pc = "generate" /\ reqs[i].gen.pc = "import"
  /\ reqs' = [reqs EXCEPT ![i].gen = GenImportDone(@)]
  /\ UNCHANGED <<env, cache, now, rnd, call>>

EncryptSettles(i) ==
  /\ reqs[i].pc = "generate" /\ reqs[i].gen.pc = "encrypt"
  /\ reqs' = [reqs EXCEPT ![i].gen = GenEncryptDone(@, rnd + 1, rnd + 2)]
  /\ rnd' = rnd + 2
  /\ UNCHANGED <<env, cache, now, call>>

Resume(i) ==
  /\ reqs[i].pc = "generate" /\ reqs[i].gen.pc \in {"returned", "thrown"}
  /\ reqs' = [reqs EXCEPT ![i] = RouteResume(@, env)]
  /\ UNCHANGED <<env, cache, now, rnd, call>>

Next ==
  \/ Tick
  \/ \E i \in 1..NReq :
       \/ Receive(i)
       \/ Handle(i)
       \/ SignSettles(i)
       \/ ImportSettles(i)
       \/ EncryptSettles(i)
       \/ Resume(i)

Spec == Init /\ [][Next]_vars

\* ------------------------------------------- the library, called directly

\* generateSignedAndEncryptedToken and constructLaunchUrl are exported
\* and take any EnvironmentConfig, validated or not.
CryptoConfigs ==
  {[BaseEnv EXCEPT !.clientSecret = secret, !.encPublicKey = pem,
                   !.signAlgorithm = sig, !.keyEncryptionAlgorithm = alg,
                   !.contentEncryptionAlgorithm = enc, !.expiredTime = expiry] :
     secret \in {"", "secret-1"},
     pem \in {"", PemRsa, PemGarbage},
     sig \in {"", "RS256"},
     alg \in {"", "ECDH-ES"},
     enc \in {"", "XC20P"},
     expiry \in {ExpUnset, ExpSpan(60), ExpAbs(5), ExpBad}}

ChildDomains ==
  {<<>>, Domain, Domain \o Str(<<"/">>), Domain \o Str(<<"/", "/">>)}
PathPrefixes ==
  {<<>>, Str(<<"/">>), Str(<<"p">>), Str(<<"/", "p">>), Str(<<"/", "/", "p">>)}
TokenParams == {<<>>, DefaultTokenParam, Str(<<"t">>)}
AdditionalParams ==
  {<<>>,
   <<<<Str(<<"s">>), Str(<<"v">>)>>>>,
   <<<<Str(<<"s">>), Str(<<"a", " ", "b">>)>>, <<Str(<<"k">>), Str(<<"v">>)>>>>,
   <<<<Str(<<"1">>), Str(<<"v">>)>>>>,
   <<<<DefaultTokenParam, Str(<<"x">>)>>>>,
   <<<<Str(<<"t">>), Str(<<"x">>)>>>>}

UrlConfigs ==
  {[BaseEnv EXCEPT !.childDomain = d, !.urlConfig = u] :
     d \in ChildDomains,
     u \in {NoUrlConfig} \cup
           {UrlConfig(p, t, a) : p \in PathPrefixes, t \in TokenParams,
                                 a \in AdditionalParams}}

LibConfigs == CryptoConfigs \cup UrlConfigs

LibPayloads ==
  {[session |-> "s1", identityKey |-> Some(k), customer |-> c,
    iat |-> 0, exp |-> DefaultTokenExpiration] :
     k \in {"", "u1"}, c \in {None, Some("c1")}}

LibInit ==
  /\ env \in [source : {[kind |-> "unset", clients |-> <<>>]},
              nodeEnv : {"production"}]
  /\ cache = EmptyCache
  /\ now = 0
  /\ rnd = 0
  /\ reqs = [i \in 1..NReq |-> NoRequest]
  /\ call \in {[NoCall EXCEPT !.pc = "ready", !.payload = <<p>>, !.config = <<c>>] :
                 p \in LibPayloads, c \in LibConfigs}

\* generateSignedAndEncryptedToken({ payload, config }) is called.
LibGenerate ==
  /\ call.pc = "ready"
  /\ \E t \in ClockReads(3) :
       /\ call' = [call EXCEPT !.pc = "generate",
                     !.gen = GenStart(call.payload[1], call.config[1],
                                      t[1], t[2], t[3], rnd + 1)]
       /\ now' = t[3]
  /\ rnd' = IF call'.gen.signRes # <<>> THEN rnd + 1 ELSE rnd
  /\ UNCHANGED <<env, cache, reqs>>

LibSignSettles ==
  /\ call.pc = "generate" /\ call.gen.pc = "sign"
  /\ call' = [call EXCEPT !.gen = GenSignDone(@)]
  /\ UNCHANGED <<env, cache, now, rnd, reqs>>

LibImportSettles ==
  /\ call.pc = "generate" /\ call.gen.pc = "import"
  /\ call' = [call EXCEPT !.gen = GenImportDone(@)]
  /\ UNCHANGED <<env, cache, now, rnd, reqs>>

LibEncryptSettles ==
  /\ call.pc = "generate" /\ call.gen.pc = "encrypt"
  /\ call' = [call EXCEPT !.gen = GenEncryptDone(@, rnd + 1, rnd + 2)]
  /\ rnd' = rnd + 2
  /\ UNCHANGED <<env, cache, now, reqs>>

\* The caller passes the token it got to constructLaunchUrl(token, config).
LibConstruct ==
  /\ call.pc = "generate" /\ call.gen.pc = "returned"
  /\ call' = [call EXCEPT !.pc = "done",
                !.url = <<constructLaunchUrl(call.gen.result[1], call.config[1])>>,
                !.log = constructLaunchUrlLog(call.gen.result[1], call.config[1])]
  /\ UNCHANGED <<env, cache, now, rnd, reqs>>

\* The caller catches the error generateSignedAndEncryptedToken threw.
LibCatch ==
  /\ call.pc = "generate" /\ call.gen.pc = "thrown"
  /\ call' = [call EXCEPT !.pc = "failed"]
  /\ UNCHANGED <<env, cache, now, rnd, reqs>>

LibNext ==
  \/ Tick
  \/ LibGenerate
  \/ LibSignSettles
  \/ LibImportSettles
  \/ LibEncryptSettles
  \/ LibConstruct
  \/ LibCatch

LibSpec == LibInit /\ [][LibNext]_vars

\* --------------------------------- the configuration module's callers

\* Calls of the configuration module that one process makes, one after
\* the other (each is synchronous): the health route, the token route's
\* configuration step and the getters.  call.history keeps, for every
\* call made, what it returned or threw and the cache it left.
MaxCalls == 3

ClientNames == {"Acme", "Nope"}
EnvironmentNames == {"dev", "qa"}

ConfigInit ==
  /\ env \in [source : Sources, nodeEnv : NodeEnvs]
  /\ cache = EmptyCache
  /\ now = 0
  /\ rnd = 0
  /\ reqs = [i \in 1..NReq |-> NoRequest]
  /\ call = [NoCall EXCEPT !.pc = "config"]

\* The call op(args) was made: l is the cache it left and its result,
\* http and code the status and error code of the route's answer (0 and ""
\* when there is none), loads whether it entered loadAndValidateConfig.
Called(op, args, l, http, code, loads) ==
  /\ call.pc = "config"
  /\ Len(call.history) < MaxCalls
  /\ call' = [call EXCEPT !.history =
                 Append(@, [op |-> op, args |-> args, res |-> l.res,
                            cache |-> l.cache, http |-> http,
                            code |-> code, loads |-> loads])]
  /\ cache' = l.cache
  /\ UNCHANGED <<env, now, rnd, reqs>>

\* GET /api/health
ConfigHealth ==
  LET l == loadAndValidateConfig(cache, env.source)
  IN Called("GET /api/health", <<>>, l, HealthResponse(l).http, "", TRUE)

\* The bodies of the POSTs: one with every field for each pair of names,
\* text that is no JSON, the JSON null, and one without clientName.
ConfigBodies ==
  {Body(cn, en, Some("s1"),
        <<[identityKey |-> Some("u1"), customer |-> Some("c1")]>>) :
     cn \in ClientNames, en \in EnvironmentNames}
  \cup {b \in Bodies : ~b.parsed \/ b.clientName = ""}

\* POST /api/token/generate up to its configuration step: it answers an
\* error, or goes on (http 0) with the environment it found.  A body that
\* is rejected before step 2 does not enter loadAndValidateConfig.
ConfigPost ==
  \E b \in ConfigBodies :
    LET h == RouteHandle([NoRequest EXCEPT !.pc = "json", !.body = <<b>>],
                         cache, env, [k \in 1..4 |-> now], rnd + 1)
        loads == h.req.trace # <<>>
    IN Called("POST /api/token/generate", <<b.clientName, b.environment>>,
              [cache |-> h.cache,
               res |-> IF loads
                       THEN loadAndValidateConfig(cache, env.source).res
                       ELSE Ok(<<>>)],
              IF h.req.pc = "done" THEN h.req.resp[1].http ELSE 0,
              IF h.req.pc = "done" THEN h.req.resp[1].code ELSE "",
              loads)

ConfigGetClients ==
  Called("getClients", <<>>, getClients(cache, env.source), 0, "", TRUE)

ConfigGetClientNames ==
  Called("getClientNames", <<>>, getClientNames(cache, env.source), 0, "", TRUE)

ConfigGetEnvironmentsForClient ==
  \E cn \in ClientNames :
    Called("getEnvironmentsForClient", <<cn>>,
           getEnvironmentsForClient(cache, env.source, cn), 0, "", TRUE)

ConfigGetEnvironmentNamesForClient ==
  \E cn \in ClientNames :
    Called("getEnvironmentNamesForClient", <<cn>>,
           getEnvironmentNamesForClient(cache, env.source, cn), 0, "", TRUE)

ConfigGetEnvironmentConfig ==
  \E cn \in ClientNames, en \in EnvironmentNames :
    Called("getEnvironmentConfig", <<cn, en>>,
           getEnvironmentConfig(cache, env.source, cn, en), 0, "", TRUE)

ConfigNext ==
  \/ ConfigHealth
  \/ ConfigPost
  \/ ConfigGetClients
  \/ ConfigGetClientNames
  \/ ConfigGetEnvironmentsForClient
  \/ ConfigGetEnvironmentNamesForClient
  \/ ConfigGetEnvironmentConfig

ConfigSpec == ConfigInit /\ [][ConfigNext]_vars

\* ------------------------------------ ConfigurationProvider (React)

\* The state of the provider's hooks.  null is "" for a name and the empty
\* sequence for an object; availableEnvironments is the array itself.
ProviderInitial ==
  [config |-> <<>>, clients |-> <<>>, selectedClientName |-> "",
   availableEnvironments |-> <<>>, selectedEnvironmentName |-> "",
   selectedEnvironmentConfig |-> <<>>, error |-> <<>>]

\* A function of the component runs with the state of the render that
\* created it (render); the updates it queues with the setters make up
\* the state of the next render (s).  c is the configuration module's
\* cache in the browser.

\* selectEnvironment(environmentName) of the render `render`.
selectEnvironment(render, s, c, source, environmentName) ==
  IF render.selectedClientName # ""
  THEN [s EXCEPT
          !.selectedEnvironmentName = environmentName,
          !.selectedEnvironmentConfig =
             getEnvironmentConfig(c, source, render.selectedClientName,
                                  environmentName).res.val[1]]
  ELSE s

\* selectClient(clientName) of the render `render`.
selectClient(render, s, c, source, clientName) ==
  LET found == getEnvironmentsForClient(c, source, clientName).res.val[1]
      environments == IF found = <<>> THEN <<>> ELSE found[1]
      s1 == [s EXCEPT !.selectedClientName = clientName,
                      !.availableEnvironments = environments]
  IN IF Len(environments) > 0
     THEN selectEnvironment(render, s1, c, source, environments[1].name)
     ELSE [s1 EXCEPT !.selectedEnvironmentName = "",
                     !.selectedEnvironmentConfig = <<>>]

\* The effect of the first render: the cache and the state afterwards.
ProviderMountEffect(render, c, source) ==
  LET l == loadAndValidateConfig(c, source)
  IN IF l.res.ok
     THEN LET loadedClients == getClients(l.cache, source).res.val[1]
              s1 == [render EXCEPT !.config = <<l.res.val[1]>>,
                                   !.clients = loadedClients,
                                   !.error = <<>>]
          IN [cache |-> l.cache,
              state |-> IF Len(loadedClients) > 0
                        THEN selectClient(render, s1, l.cache, source,
                                          loadedClients[1].name)
                        ELSE s1]
     ELSE [cache |-> l.cache,
           state |-> [render EXCEPT !.error = <<l.res.err>>,
                                    !.config = <<>>, !.clients = <<>>]]

\* Configurations with a second client, "Beta", before or after "Acme".
BetaDev ==
  [BaseEnv EXCEPT !.clientId = "client-3", !.clientSecret = "secret-3"]
BetaQa == [BetaDev EXCEPT !.name = "qa"]
Acme == [name |-> "Acme", environments |-> <<<<BaseEnv, ProdEnv>>>>]
Beta(environments) == [name |-> "Beta", environments |-> <<environments>>]
BetaEnvironments == {<<>>, <<BetaDev>>, <<BetaQa, BetaDev>>}
ProviderSources ==
  Sources
  \cup {[kind |-> "root", clients |-> <<Acme, Beta(e)>>] : e \in BetaEnvironments}
  \cup {[kind |-> "root", clients |-> <<Beta(e), Acme>>] : e \in BetaEnvironments}

\* The names a consumer passes to selectClient and selectEnvironment.
SelectableClients == {"Acme", "Beta", "Nope"}
SelectableEnvironments == {"dev", "prod", "qa"}

\* call.provider is the state of the current render, call.last the last
\* function of the provider that ran.
ProviderInit ==
  /\ env \in [source : ProviderSources, nodeEnv : {"production"}]
  /\ cache = EmptyCache
  /\ now = 0
  /\ rnd = 0
  /\ reqs = [i \in 1..NReq |-> NoRequest]
  /\ call = [pc |-> "unmounted", provider |-> ProviderInitial,
             last |-> [op |-> "render", arg |-> ""]]

ProviderMount ==
  /\ call.pc = "unmounted"
  /\ LET m == ProviderMountEffect(call.provider, cache, env.source)
     IN /\ call' = [call EXCEPT !.pc = "mounted", !.provider = m.state,
                                !.last = [op |-> "mount", arg |-> ""]]
        /\ cache' = m.cache
  /\ UNCHANGED <<env, now, rnd, reqs>>

\* A consumer calls selectClient(clientName) of the current render.
ProviderSelectClient ==
  /\ call.pc = "mounted"
  /\ call.provider.error = <<>>
  /\ \E clientName \in SelectableClients :
       call' = [call EXCEPT
                  !.provider = selectClient(call.provider, call.provider,
                                            cache, env.source, clientName),
                  !.last = [op |-> "selectClient", arg |-> clientName]]
  /\ UNCHANGED <<env, cache, now, rnd, reqs>>

\* A consumer calls selectEnvironment(environmentName) of the current
\* render.
ProviderSelectEnvironment ==
  /\ call.pc = "mounted"
  /\ call.provider.error = <<>>
  /\ \E environmentName \in SelectableEnvironments :
       call' = [call EXCEPT
                  !.provider = selectEnvironment(call.provider, call.provider,
                                                 cache, env.source,
                                                 environmentName),
                  !.last = [op |-> "selectEnvironment",
                            arg |-> environmentName]]
  /\ UNCHANGED <<env, cache, now, rnd, reqs>>

ProviderNext ==
  \/ ProviderMount
  \/ ProviderSelectClient
  \/ ProviderSelectEnvironment

ProviderSpec == ProviderInit /\ [][ProviderNext]_vars

\* ------------------------------------------------ the receiving side

\* A reference implementation holding the private key that matches the
\* public key pem and the signing secret: compact JWE decryption and
\* compact JWS verification.  Each returns the empty sequence on failure.
Segments(token) == SplitOn(token, ".")

IsSegment(seg, part) == Len(seg) = 1 /\ seg[1].part = part

JweDecrypt(token, pem) ==
  LET seg == Segments(token)
  IN IF /\ Len(seg) = 5
        /\ IsSegment(seg[1], "jweHeader")
        /\ IsSegment(seg[2], "jweEncryptedKey")
        /\ IsSegment(seg[3], "jweIv")
        /\ IsSegment(seg[4], "jweCiphertext")
        /\ IsSegment(seg[5], "jweTag")
     THEN LET ek == seg[2][1].val[1]
              ct == seg[4][1].val[1]
              tag == seg[5][1].val[1]
          IN IF /\ ek.pem = pem
                /\ ct.cek = ek.cek
                /\ ct.iv = seg[3][1].val[1].iv
                /\ tag = [cek |-> ek.cek, iv |-> ct.iv,
                          aad |-> seg[1][1].val[1]]
             THEN <<ct.pt>>
             ELSE <<>>
     ELSE <<>>

JwsVerify(jws, secret) ==
  LET seg == Segments(jws)
  IN IF /\ Len(seg) = 3
        /\ IsSegment(seg[1], "jwsHeader")
        /\ IsSegment(seg[2], "jwsPayload")
        /\ IsSegment(seg[3], "jwsSignature")
     THEN IF seg[3][1].val[1] = Mac(secret, seg[1][1].val[1], seg[2][1].val[1])
          THEN <<seg[2][1].val[1]>>
          ELSE <<>>
     ELSE <<>>

\* The claims the child application recovers from a launch token.
ClaimsOf(token, config) ==
  LET pt == JweDecrypt(token, config.encPublicKey)
  IN IF pt = <<>> THEN <<>> ELSE JwsVerify(pt[1], config.clientSecret)

\* Requests that were answered, and those answered with a token.
Answered == {i \in 1..NReq : reqs[i].pc = "done"}
Succeeded == {i \in Answered : reqs[i].resp[1].status = "success"}

\* ------------------------------------------------------------- claims

Range(f) == {f[i] : i \in DOMAIN f}
\* Stage a was started before stage b.
Before(stages, a, b) ==
  \E i, j \in 1..Len(stages) : i < j /\ stages[i] = a /\ stages[j] = b

\* C1: in every call of generateSignedAndEncryptedToken, what is handed to
\* the encryption step is the compact JWS that the signing step of that
\* same call produced: encryption starts only after this call's signing
\* succeeded, and a returned token decrypts to this call's JWS.
C1_EncryptsOwnJws ==
  \A i \in 1..NReq :
    LET g == reqs[i].gen
    IN /\ g.plaintext # <<>> =>
            /\ g.signRes # <<>>
            /\ g.signRes[1].ok
            /\ g.plaintext[1] = Utf8Encode(g.signRes[1].val[1])
            /\ JwsVerify(g.plaintext[1], g.config[1].clientSecret) # <<>>
       /\ "encrypt" \in Range(g.stages) =>
            /\ Before(g.stages, "sign", "encrypt")
            /\ g.signRes[1].ok
       /\ g.pc = "returned" =>
            JweDecrypt(g.result[1], g.config[1].encPublicKey)
              = <<g.signRes[1].val[1]>>

\* Two calls have returned tokens, each for its own payload.
C1_Witness ==
  /\ \A i \in 1..NReq : reqs[i].gen.pc = "returned"
  /\ reqs[1].gen.payload # reqs[2].gen.payload

\* C2: with an empty signing secret the call fails with the missing-secret
\* error before signing, key import or encryption is started, and yields
\* no token.
C2_MissingSecretFailsFirst ==
  (call.pc \notin {"none", "ready"} /\ call.config[1].clientSecret = "") =>
    /\ call.gen.pc = "thrown"
    /\ call.gen.err = <<MsgGeneratePrefix, MsgSecretMissing>>
    /\ call.gen.stages = <<"prepareSigningSecret">>
    /\ call.gen.signRes = <<>>
    /\ call.gen.jws = <<>>
    /\ call.gen.key = <<>>
    /\ call.gen.plaintext = <<>>
    /\ call.gen.result = <<>>

\* A call with an empty secret and an otherwise usable configuration failed.
C2_Witness ==
  /\ call.pc = "failed"
  /\ call.config[1].clientSecret = ""
  /\ call.config[1].encPublicKey = PemRsa
  /\ call.config[1].signAlgorithm = ""

\* C3: every response is all or nothing: a success response carries the
\* token the call returned and the URL constructLaunchUrl built from that
\* token; an error response carries neither token nor URL.
C3_AllOrNothing ==
  \A i \in Answered :
    LET r == reqs[i]
        resp == r.resp[1]
    IN /\ resp.status \in {"success", "error"}
       /\ resp.status = "success" =>
            /\ resp.http = 200
            /\ r.gen.pc = "returned"
            /\ resp.token = r.gen.result
            /\ Len(resp.url) = 1
            /\ Ok(resp.url[1]) = constructLaunchUrl(resp.token[1], r.config[1])
       /\ resp.status = "error" =>
            /\ resp.http # 200
            /\ resp.token = <<>>
            /\ resp.url = <<>>
       /\ (resp.token = <<>>) <=> (resp.url = <<>>)

\* One request got its token and URL, another an error after its token
\* generation had started.
C3_Witness ==
  \E i, j \in Answered :
    /\ reqs[i].resp[1].status = "success"
    /\ reqs[j].resp[1].status = "error"
    /\ reqs[j].gen.pc = "thrown"
    /\ reqs[j].gen.jws # <<>>

\* C4: every token returned is a compact JWE of exactly five segments
\* that wraps a compact JWS of exactly three segments.
C4_FiveSegmentsAroundThree ==
  \A i \in Succeeded :
    LET token == reqs[i].resp[1].token[1]
        inner == JweDecrypt(token, reqs[i].config[1].encPublicKey)
    IN /\ Len(Segments(token)) = 5
       /\ \A k \in 1..5 : Len(Segments(token)[k]) = 1
       /\ inner # <<>>
       /\ Len(Segments(inner[1])) = 3
       /\ JwsVerify(inner[1], reqs[i].config[1].clientSecret) # <<>>

\* Tokens were returned under the default and under the fully set
\* configuration.
C4_Witness ==
  \E i, j \in Succeeded :
    /\ reqs[i].config[1].name = "dev"
    /\ reqs[j].config[1].name = "prod"

\* The query parameters of url whose decoded name is name.
ParamsNamed(url, name) ==
  LET q == ParseQuery(url)
  IN {i \in 1..Len(q) : q[i][1] = name}

\* A URL was built for a configuration with a child domain.
UrlBuilt == call.pc = "done" /\ call.url[1].ok

\* C5: for every token and every configuration with a child domain, the
\* URL has exactly one query parameter named by the token parameter (or
\* "token"), and the token occurs in the URL exactly once, as the value
\* of that parameter.
C5_TokenExactlyOnce ==
  UrlBuilt =>
    LET url == call.url[1].val[1]
        token == call.gen.result[1]
        named == ParamsNamed(url, TokenParamOf(call.config[1]))
    IN /\ Cardinality(named) = 1
       /\ \A i \in named : ParseQuery(url)[i][2] = token
       /\ Occurrences(token, url) = 1

\* C6: when additionalParams has a key equal to the token parameter name,
\* the value of that query parameter in the URL is the token.
C6_TokenWinsCollision ==
  (UrlBuilt /\ HasKey(AdditionalParamsOf(call.config[1]),
                      TokenParamOf(call.config[1]))) =>
    LET url == call.url[1].val[1]
    IN \A i \in ParamsNamed(url, TokenParamOf(call.config[1])) :
         ParseQuery(url)[i][2] = call.gen.result[1]

\* What does hold of the URL: the token is there exactly once, under the
\* token parameter, unless additionalParams has a key of that name.
UrlTokenUnlessCollision ==
  (UrlBuilt /\ ~HasKey(AdditionalParamsOf(call.config[1]),
                       TokenParamOf(call.config[1]))) =>
    LET url == call.url[1].val[1]
        token == call.gen.result[1]
        named == ParamsNamed(url, TokenParamOf(call.config[1]))
    IN /\ Cardinality(named) = 1
       /\ \A i \in named : ParseQuery(url)[i][2] = token
       /\ Occurrences(token, url) = 1

\* The claims carried by the token request i was answered with.
TokenClaims(i) == ClaimsOf(reqs[i].resp[1].token[1], reqs[i].config[1])[1]

\* C7: in the claims of every generated token, as finally signed, exp is
\* iat plus the configuration's tokenExpiration, 300 when that is unset.
C7_ExpIsIatPlusTokenExpiration ==
  \A i \in Succeeded :
    TokenClaims(i).exp = TokenClaims(i).iat + TokenExpirationOf(reqs[i].config[1])

\* Requests i and j were sent the same body (and so use the same
\* configuration) and both were answered with a token.
SameInputs(i, j) ==
  /\ i \in Succeeded /\ j \in Succeeded
  /\ i # j
  /\ reqs[i].body = reqs[j].body

\* The claims a and b agree on every claim that is not in the set except.
ClaimsAgreeExcept(a, b, except) ==
  /\ "session" \in except \/ a.session = b.session
  /\ "identityKey" \in except \/ a.identityKey = b.identityKey
  /\ "customer" \in except \/ a.customer = b.customer
  /\ "iat" \in except \/ a.iat = b.iat
  /\ "exp" \in except \/ a.exp = b.exp
  /\ "nbf" \in except \/ a.nbf = b.nbf
  /\ "iss" \in except \/ a.iss = b.iss
  /\ "sub" \in except \/ a.sub = b.sub
  /\ "jti" \in except \/ a.jti = b.jti

TokensDistinct(i, j) ==
  /\ reqs[i].gen.jws # reqs[j].gen.jws
  /\ reqs[i].resp[1].token # reqs[j].resp[1].token
  /\ TokenClaims(i).jti # TokenClaims(j).jti

\* C8, as claimed: two calls with identical inputs never return the same
\* signed or encrypted token, each having a fresh jti, and their claims
\* differ only in iat, exp and jti.
C8_DifferOnlyInIatExpJti ==
  \A i, j \in 1..NReq :
    SameInputs(i, j) =>
      /\ TokensDistinct(i, j)
      /\ ClaimsAgreeExcept(TokenClaims(i), TokenClaims(j), {"iat", "exp", "jti"})

\* C8, amended: two calls with identical inputs never return the same
\* signed or encrypted token, each having a fresh jti, and their claims
\* differ only in iat, exp, nbf and jti.
C8_DifferOnlyInTimesAndJti ==
  \A i, j \in 1..NReq :
    SameInputs(i, j) =>
      /\ TokensDistinct(i, j)
      /\ ClaimsAgreeExcept(TokenClaims(i), TokenClaims(j),
                           {"iat", "exp", "nbf", "jti"})

\* Two requests with the same body were both answered with a token, signed
\* in the same second.
C8_Witness ==
  \E i, j \in 1..NReq :
    /\ SameInputs(i, j)
    /\ TokenClaims(i).iat = TokenClaims(j).iat
    /\ TokenClaims(i).nbf = TokenClaims(j).nbf

\* C9, as claimed: decrypting and verifying the returned token recovers
\* claims whose session is the request's sessionPayload and whose
\* identityKey and customer are those of the request's userPayload, also
\* when userPayload has no identityKey or no customer.
C9_RoundTrip ==
  \A i \in Succeeded :
    LET b == reqs[i].body[1]
        claims == ClaimsOf(reqs[i].resp[1].token[1], reqs[i].config[1])
    IN /\ claims # <<>>
       /\ claims[1].session = b.sessionPayload.v
       /\ claims[1].identityKey = b.userPayload[1].identityKey
       /\ claims[1].customer = b.userPayload[1].customer

\* C9, amended: the recovered session and customer are the request's
\* (customer absent when the request has none); the recovered identityKey
\* is the request's when that is a non-empty string, and the empty string
\* when userPayload has no identityKey.
C9_RoundTripIdentityDefaulted ==
  \A i \in Succeeded :
    LET b == reqs[i].body[1]
        claims == ClaimsOf(reqs[i].resp[1].token[1], reqs[i].config[1])
    IN /\ claims # <<>>
       /\ claims[1].session = b.sessionPayload.v
       /\ claims[1].identityKey =
            (IF Truthy(b.userPayload[1].identityKey)
             THEN b.userPayload[1].identityKey ELSE Some(""))
       /\ claims[1].customer = b.userPayload[1].customer

\* Tokens were returned for a user payload with both fields and for one
\* with neither.
C9_Witness ==
  \E i, j \in Succeeded :
    /\ reqs[i].body[1].userPayload[1] =
         [identityKey |-> Some("u1"), customer |-> Some("c1")]
    /\ reqs[j].body[1].userPayload[1] =
         [identityKey |-> None, customer |-> None]

\* The configured environments, whatever the state of the cache.
ConfiguredEnvironments ==
  IF env.source.kind # "root" THEN {}
  ELSE UNION {Range(env.source.clients[c].environments[1]) :
                c \in {k \in 1..Len(env.source.clients) :
                         env.source.clients[k].environments # <<>>}}

\* The environment request i names has an empty childDomain, a signing
\* secret and a well-formed public key.
NamesDomainlessEnvironment(i) ==
  /\ reqs[i].body[1].parsed
  /\ ~MissingFields(reqs[i].body[1])
  /\ \E e \in ConfiguredEnvironments :
       /\ e.name = reqs[i].body[1].environment
       /\ e.childDomain = <<>>
       /\ e.clientSecret # ""
       /\ e.encPublicKey = PemRsa

\* C10, as claimed: with an empty childDomain and a valid secret and
\* public key, the request signs and encrypts, then fails in URL
\* construction; the failure is reported as the missing-child-domain
\* error and no token is returned.
C10_FailsInUrlConstruction ==
  \A i \in Answered :
    NamesDomainlessEnvironment(i) =>
      /\ reqs[i].gen.pc = "returned"
      /\ "url" \in Range(reqs[i].trace)
      /\ reqs[i].resp[1].status = "error"
      /\ MsgChildDomainMissing \in Range(reqs[i].resp[1].message)
      /\ reqs[i].resp[1].token = <<>>

\* C10, amended: with an empty childDomain and a valid secret and public
\* key, the configuration is rejected when it is loaded: the request is
\* answered 400 INVALID_CONFIGURATION before anything is signed or
\* encrypted, and no token is returned.
C10_RejectedAtConfigurationLoad ==
  \A i \in Answered :
    NamesDomainlessEnvironment(i) =>
      /\ reqs[i].gen = NoGen
      /\ reqs[i].trace = <<"config">>
      /\ reqs[i].resp[1].status = "error"
      /\ reqs[i].resp[1].http = 400
      /\ reqs[i].resp[1].code = "INVALID_CONFIGURATION"
      /\ reqs[i].resp[1].token = <<>>
      /\ cache.parsedConfig = <<>>

\* A request naming an environment without childDomain was answered.
C10_Witness ==
  \E i \in Answered : NamesDomainlessEnvironment(i)

\* The message of the failure of the stage at which the call g stopped,
\* as that stage threw it.
StageCause(g) ==
  LET config == g.config[1]
      key == importSPKI(config.encPublicKey, KeyEncryptionAlgorithmOf(config))
  IN IF config.clientSecret = "" THEN <<MsgSecretMissing>>
     ELSE IF ~g.signRes[1].ok THEN <<MsgSignPrefix>> \o g.signRes[1].err
     ELSE IF config.encPublicKey = "" THEN <<MsgKeyMissing>>
     ELSE IF ~key.ok
     THEN <<MsgKeyImportPrefix>> \o key.err \o <<MsgKeyImportSuffix>>
     ELSE CompactEncrypt(g.plaintext[1], JweHeader(config), key.val[1], 0, 0).err

\* A direct call whose token was generated and whose URL construction threw.
UrlFailed == call.pc = "done" /\ ~call.url[1].ok

\* C11, as claimed: every failure of a pipeline stage, that of URL
\* construction included, reaches the caller as the one generation-failed
\* error, which carries the message of its cause.
C11_OneErrorKind ==
  /\ call.gen.pc = "thrown" =>
       call.gen.err = <<MsgGeneratePrefix>> \o StageCause(call.gen)
  /\ UrlFailed => call.url[1].err = <<MsgGeneratePrefix, MsgChildDomainMissing>>

\* C11, amended: every failure inside generateSignedAndEncryptedToken
\* (missing secret, signing, missing or unparsable public key, encryption)
\* reaches the caller as the one generation-failed error followed by the
\* message of its cause; a failure of URL construction is thrown by
\* constructLaunchUrl as the missing-child-domain error, not wrapped.
C11_GenerationFailuresWrapped ==
  /\ call.gen.pc = "thrown" =>
       /\ call.gen.err = <<MsgGeneratePrefix>> \o StageCause(call.gen)
       /\ call.gen.result = <<>>
  /\ UrlFailed => call.url[1].err = <<MsgChildDomainMissing>>

\* A call failed in its encryption step, the last stage of the generation.
C11_Witness ==
  /\ call.pc = "failed"
  /\ call.gen.stages = <<"prepareSigningSecret", "sign", "importKey", "encrypt">>

\* The configuration was loaded and has no environment of request i's
\* client and environment names.
PairUnresolved(i) ==
  LET b == reqs[i].body[1]
  IN /\ b.parsed /\ ~MissingFields(b)
     /\ cache.parsedConfig # <<>>
     /\ ~\E k \in 1..Len(cache.parsedConfig[1]) :
           /\ cache.parsedConfig[1][k].name = b.clientName
           /\ \E e \in Range(cache.parsedConfig[1][k].environments[1]) :
                e.name = b.environment

\* C12: an unresolved client/environment pair, an unparsable body and a
\* missing field are answered with a 4xx status, every signing or
\* encryption failure with a 5xx status, and 200 is answered only when
\* both token and URL were produced.
C12_StatusClasses ==
  \A i \in Answered :
    LET r == reqs[i]
        http == r.resp[1].http
    IN /\ (~r.body[1].parsed \/ MissingFields(r.body[1]) \/ PairUnresolved(i))
            => http \in 400..499
       /\ r.gen.pc = "thrown" => http \in 500..599
       /\ http = 200 =>
            /\ r.gen.pc = "returned"
            /\ r.resp[1].token = r.gen.result
            /\ r.resp[1].url # <<>>
       /\ http \in (400..599) \cup {200}

\* One request failed in signing or encryption, another named an
\* environment the loaded configuration does not have.
C12_Witness ==
  \E i, j \in Answered :
    /\ reqs[i].gen.pc = "thrown"
    /\ reqs[i].gen.signRes # <<>>
    /\ PairUnresolved(j)

\* The error kinds of the specification's taxonomy.
Taxonomy ==
  {"MissingSigningSecret", "InvalidPublicKey", "SigningFailed",
   "EncryptionFailed", "MissingChildDomain", "ConfigurationNotFound",
   "PayloadStructureInvalid"}

\* The error codes the route answers with.
RouteErrorCodes ==
  {"INVALID_REQUEST_BODY", "MISSING_FIELDS", "INVALID_CONFIGURATION",
   "TOKEN_GENERATION_ERROR", "INTERNAL_SERVER_ERROR"}

\* Requests answered with an error.
Failed == {i \in Answered : reqs[i].resp[1].status = "error"}

\* An error response has status "error", a requestId, a timestamp and a
\* message.
ErrorShape(resp, r) ==
  /\ resp.status = "error"
  /\ resp.requestId = <<r.requestId>>
  /\ resp.timestamp = <<r.timestamp>>
  /\ resp.message # <<>>

\* C13, as claimed: every error response has status "error", a requestId,
\* a timestamp, a message, and a code of the taxonomy.
C13_CodeInTaxonomy ==
  \A i \in Answered :
    reqs[i].resp[1].status # "success" =>
      /\ ErrorShape(reqs[i].resp[1], reqs[i])
      /\ reqs[i].resp[1].code \in Taxonomy

\* C13, amended: every error response has status "error", the requestId
\* and timestamp taken when the request arrived, a message, and a code
\* that is one of the route's own: INVALID_REQUEST_BODY for a body that is
\* no JSON, MISSING_FIELDS for a missing field of a body that is not null,
\* INVALID_CONFIGURATION when
\* the configuration does not load or lacks the pair,
\* TOKEN_GENERATION_ERROR when the generation throws, and
\* INTERNAL_SERVER_ERROR for anything else.
C13_CodeOfTheRoute ==
  \A i \in Answered :
    LET r == reqs[i]
        resp == r.resp[1]
    IN resp.status # "success" =>
         /\ ErrorShape(resp, r)
         /\ resp.code \in RouteErrorCodes
         /\ resp.code = (IF ~r.body[1].parsed THEN "INVALID_REQUEST_BODY"
                         ELSE IF r.body[1].isNull THEN "INTERNAL_SERVER_ERROR"
                         ELSE IF MissingFields(r.body[1]) THEN "MISSING_FIELDS"
                         ELSE IF r.gen = NoGen THEN "INVALID_CONFIGURATION"
                         ELSE IF r.gen.pc = "thrown" THEN "TOKEN_GENERATION_ERROR"
                         ELSE "INTERNAL_SERVER_ERROR")

\* Two requests were answered with errors of different codes, one of them
\* for a failed generation.
C13_Witness ==
  \E i, j \in Failed :
    /\ reqs[i].resp[1].code = "TOKEN_GENERATION_ERROR"
    /\ reqs[j].resp[1].code = "MISSING_FIELDS"

\* What does hold of the cause's text: a failed generation is answered
\* with a fixed message, and with the cause's message as details only
\* when NODE_ENV is "development".
GenerationCauseOnlyInDevelopment ==
  \A i \in Failed :
    reqs[i].resp[1].code = "TOKEN_GENERATION_ERROR" =>
      /\ reqs[i].resp[1].message = <<"Failed to generate JWE token.">>
      /\ reqs[i].resp[1].details =
           (IF env.nodeEnv = "development" THEN <<reqs[i].gen.err>> ELSE <<>>)

\* The text of an error response's message that does not depend on the
\* cause: the message literal of each code.
GenericMessage(code) ==
  IF code = "INVALID_REQUEST_BODY" THEN <<"Invalid JSON in request body.">>
  ELSE IF code = "MISSING_FIELDS"
  THEN <<"Missing required fields: clientName, environment, sessionPayload, userPayload.">>
  ELSE IF code = "INVALID_CONFIGURATION" THEN <<"Configuration error: ">>
  ELSE IF code = "TOKEN_GENERATION_ERROR" THEN <<"Failed to generate JWE token.">>
  ELSE <<"An unexpected internal server error occurred.">>

\* C14: when NODE_ENV is not "development", no error response carries text
\* of the underlying error in any field: it has no details and its message
\* is the fixed text of its code, so that responses of one error class are
\* the same whatever the cause, apart from requestId and timestamp.
C14_NoCauseTextInProduction ==
  env.nodeEnv # "development" =>
    \A i \in Failed :
      /\ reqs[i].resp[1].details = <<>>
      /\ reqs[i].resp[1].message = GenericMessage(reqs[i].resp[1].code)

\* The log call e hands the logger the token, the signing secret or a
\* key of config: as a value of its metadata or inside one.
Leaks(e, token, config) ==
  \E k \in 1..Len(e.meta) :
    LET v == e.meta[k][2]
    IN \/ /\ v.kind = "atom"
          /\ v.v[1] \in {config.clientSecret, config.encPublicKey,
                         config.sigPublicKey}
       \/ /\ v.kind = "text"
          /\ token # <<>>
          /\ Occurrences(token[1], v.v) > 0

\* The same of the line written to the console, after redaction.
LeaksWritten(e, token, config) ==
  Leaks([e EXCEPT !.meta = e.written], token, config)

\* What does hold of the logger: the calls made inside
\* generateSignedAndEncryptedToken carry neither token nor secret nor key.
GenerationLogsClean ==
  \A i \in 1..NReq :
    \A k \in 1..Len(reqs[i].gen.log) :
      ~Leaks(reqs[i].gen.log[k], reqs[i].gen.result, reqs[i].config[1])

\* C15: during token generation and URL construction no call of logInfo or
\* logError receives metadata containing the generated token, the signing
\* secret or key material, directly or inside another value such as the
\* launch URL.
C15_NoSecretsLogged ==
  \A i \in 1..NReq :
    LET log == reqs[i].gen.log \o reqs[i].log
    IN \A k \in 1..Len(log) :
         /\ ~Leaks(log[k], reqs[i].gen.result, reqs[i].config[1])
         /\ ~LeaksWritten(log[k], reqs[i].gen.result, reqs[i].config[1])

\* The calls that return what loadAndValidateConfig returns.
ReturnsRootConfig ==
  {"GET /api/health", "POST /api/token/generate", "getClients"}

\* C16: under any sequence of calls of loadAndValidateConfig, from the
\* token route, the health route and the getters, the configuration source
\* is read and parsed at most once; after a successful load every later
\* call returns that same configuration, and no call changes it.
C16_LoadedOnceNeverModified ==
  LET h == call.history
  IN /\ cache.reads <= 1
     /\ (\E k \in 1..Len(h) : h[k].loads) => cache.reads = 1
     /\ \A k \in {i \in 1..Len(h) : h[i].loads} :
          /\ h[k].cache.reads = 1
          /\ (h[k].op \in ReturnsRootConfig /\ h[k].res.ok) =>
               /\ h[k].res.val[1] = env.source.clients
               /\ h[k].cache.parsedConfig = <<h[k].res.val[1]>>
          /\ \A j \in k..Len(h) : h[j].cache = h[k].cache
     /\ cache.parsedConfig # <<>> => cache.parsedConfig[1] = env.source.clients

\* The configuration was loaded by one caller and then returned to two
\* others.
C16_Witness ==
  LET h == call.history
  IN /\ Len(h) = 3
     /\ h[1].op = "getEnvironmentConfig"
     /\ h[2].op = "GET /api/health"
     /\ h[3].op = "POST /api/token/generate"
     /\ \A k \in 1..3 : h[k].loads /\ h[k].res.ok

\* Request r run alone, in a process that serves nothing else: from its
\* body, the environment and an empty configuration cache to its
\* response, at time 0 and with 0 for every random value.  Every stage
\* is a set of one element, computed once.
Alone(r) ==
  LET handled ==
        {RouteHandle([NoRequest EXCEPT !.pc = "json", !.body = r.body,
                        !.timestamp = r.timestamp,
                        !.requestId = r.requestId],
                     EmptyCache, env, [k \in 1..4 |-> 0], 0).req}
      signed ==
        {IF h.gen.pc = "sign" THEN GenSignDone(h.gen) ELSE h.gen :
           h \in handled}
      imported ==
        {IF g1.pc = "import" THEN GenImportDone(g1) ELSE g1 : g1 \in signed}
      encrypted ==
        {IF g2.pc = "encrypt" THEN GenEncryptDone(g2, 0, 0) ELSE g2 :
           g2 \in imported}
      resumed ==
        UNION {IF h.pc = "done" THEN {h}
               ELSE {RouteResume(q, env) :
                       q \in {[h EXCEPT !.gen = g3] : g3 \in encrypted}} :
                 h \in handled}
  IN CHOOSE h \in resumed : TRUE

\* C17: whatever the interleaving with other requests, each response is
\* the one its request gets when run alone: the same status, code,
\* message and details, and in case of success a token for its own
\* configuration whose claims differ from those of the run alone at most
\* in the times and the jti, and the URL of that token.
C17_AsIfAlone ==
  \A i \in Answered :
    LET r == reqs[i]
        a == Alone(r)
    IN /\ r.config = a.config
       /\ r.resp[1].http = a.resp[1].http
       /\ r.resp[1].status = a.resp[1].status
       /\ r.resp[1].code = a.resp[1].code
       /\ r.resp[1].message = a.resp[1].message
       /\ r.resp[1].details = a.resp[1].details
       /\ r.resp[1].timestamp = a.resp[1].timestamp
       /\ r.resp[1].requestId = a.resp[1].requestId
       /\ r.resp[1].status = "success" =>
            /\ ClaimsOf(r.resp[1].token[1], a.config[1]) # <<>>
            /\ ClaimsAgreeExcept(
                 TokenClaims(i),
                 ClaimsOf(a.resp[1].token[1], a.config[1])[1],
                 {"iat", "exp", "nbf", "jti"})
            /\ Ok(r.resp[1].url[1]) =
                 constructLaunchUrl(r.resp[1].token[1], a.config[1])

\* Two requests for different environments were both answered with a
\* token, the second having been signed while the first was waiting for
\* its encryption.
C17_Witness ==
  /\ Succeeded = 1..NReq
  /\ reqs[1].body[1].environment # reqs[2].body[1].environment
  /\ TokenClaims(1).jti < TokenClaims(2).jti
  /\ TokenClaims(2).jti < Segments(reqs[1].resp[1].token[1])[2][1].val[1].cek

\* Some configured environment lacks the signing secret, the encryption
\* public key or the child domain.
LacksRequiredField ==
  \E e \in ConfiguredEnvironments :
    e.clientSecret = "" \/ e.encPublicKey = "" \/ e.childDomain = <<>>

\* C18: a configuration in which an environment lacks the signing secret,
\* the encryption public key or childDomain is rejected when it is loaded:
\* every call throws the loader's error, the cache never holds a
\* configuration (nor a default in place of the missing field), and
\* getEnvironmentConfig returns no environment.
C18_RejectedWhenLoaded ==
  LacksRequiredField =>
    /\ cache.parsedConfig = <<>>
    /\ \A k \in {i \in 1..Len(call.history) : call.history[i].loads} :
         LET c == call.history[k]
         IN /\ ~c.res.ok
            /\ c.res.val = <<>>
            /\ c.res.err[1] = MsgLoadPrefix
            /\ c.res.err[2] = MsgBadEnvironmentPrefix
            /\ c.cache.parsedConfig = <<>>
            /\ c.cache.parseError = <<c.res.err>>
            /\ c.op = "GET /api/health" => c.http = 503
            /\ c.op = "POST /api/token/generate" => c.http = 400

\* With an environment lacking its public key, the health route was
\* called and then getEnvironmentConfig for that environment.
C18_Witness ==
  /\ \E e \in ConfiguredEnvironments : e.name = "dev" /\ e.encPublicKey = ""
  /\ Len(call.history) = 2
  /\ call.history[1].op = "GET /api/health"
  /\ call.history[2].op = "getEnvironmentConfig"
  /\ call.history[2].args = <<"Acme", "dev">>

\* s is an initial part of t.
IsPrefix(s, t) == Len(s) <= Len(t) /\ s = SubSeq(t, 1, Len(s))

\* The stages of a request in the order of the code.
StageOrder ==
  <<"config", "assemble", "generate", "prepareSigningSecret", "sign",
    "importKey", "encrypt", "url">>

\* The stages request r has entered so far, in the order it entered them:
\* those of the route up to the call of the generation, those of the
\* generation, then the URL construction.
StagesEntered(r) ==
  LET route == SelectSeq(r.trace, LAMBDA x : x # "url")
      url == SelectSeq(r.trace, LAMBDA x : x = "url")
  IN route \o r.gen.stages \o url

\* C19: in every request the stages run in the fixed order configuration
\* lookup, claims assembly, signing, encryption, URL construction; the
\* lookup precedes the signing, and a stage is entered only if every
\* earlier stage of the request succeeded.
C19_FixedStageOrder ==
  \A i \in 1..NReq :
    LET r == reqs[i]
        entered == Range(StagesEntered(r))
    IN /\ IsPrefix(StagesEntered(r), StageOrder)
       /\ (r.trace # <<>> /\ r.trace[Len(r.trace)] = "url") \/ "url" \notin entered
       /\ "assemble" \in entered =>
            /\ r.config # <<>>
            /\ cache.parsedConfig # <<>>
            /\ r.config[1] \in ConfiguredEnvironments
            /\ r.payload # <<>>
       /\ "sign" \in entered =>
            /\ Before(StagesEntered(r), "config", "sign")
            /\ Before(StagesEntered(r), "assemble", "sign")
            /\ prepareSigningSecret(r.config[1]).ok
       /\ "importKey" \in entered => r.gen.signRes[1].ok
       /\ "encrypt" \in entered =>
            /\ Before(StagesEntered(r), "sign", "encrypt")
            /\ r.gen.key # <<>>
       /\ "url" \in entered =>
            /\ Before(StagesEntered(r), "encrypt", "url")
            /\ r.gen.pc = "returned"

\* One request ran every stage, another stopped when its key import
\* failed.
C19_Witness ==
  \E i, j \in Answered :
    /\ StagesEntered(reqs[i]) = StageOrder
    /\ StagesEntered(reqs[j]) = SubSeq(StageOrder, 1, 6)
    /\ reqs[j].gen.pc = "thrown"

\* How many times stage a was entered.
TimesEntered(stages, a) ==
  Cardinality({k \in 1..Len(stages) : stages[k] = a})

\* The stage at which the generation g failed: the last it entered.
FailedStage(g) == g.stages[Len(g.stages)]

\* In every request each of signing, key import and encryption was
\* attempted at most once, and a generation that failed stopped at the
\* stage that failed, whose request is answered with an error.
AttemptedOnce ==
  \A i \in 1..NReq :
    LET r == reqs[i]
        g == r.gen
    IN /\ \A a \in {"prepareSigningSecret", "sign", "importKey", "encrypt"} :
            TimesEntered(g.stages, a) <= 1
       /\ g.pc = "thrown" =>
            /\ g.result = <<>>
            /\ "url" \notin Range(r.trace)
            /\ FailedStage(g) = "prepareSigningSecret" => g.signRes = <<>>
            /\ FailedStage(g) = "sign" => ~g.signRes[1].ok /\ g.jws = <<>>
            /\ FailedStage(g) = "importKey" => g.key = <<>> /\ g.plaintext = <<>>
            /\ r.pc = "done" =>
                 r.resp[1].status = "error" /\ r.resp[1].http = 500

\* A generation that has failed does nothing more, and the stages a
\* request has entered are never entered again: the list only grows at
\* its end.
NeverResumed ==
  \A i \in 1..NReq :
    /\ reqs[i].gen.pc = "thrown" => reqs'[i].gen = reqs[i].gen
    /\ IsPrefix(reqs[i].gen.stages, reqs'[i].gen.stages)
    /\ reqs[i].pc = "done" => reqs'[i] = reqs[i]

\* C20: no stage is retried: within one request signing, public-key
\* import and encryption are each attempted at most once, and the first
\* failure of any of them ends the request with an error without a
\* further stage being attempted.
C20_NoRetries == []AttemptedOnce /\ [][NeverResumed]_vars

\* One request was answered after its encryption had failed, having
\* signed and imported the key before, while another got its token.
C20_Witness ==
  \E i \in Answered, j \in Succeeded :
    /\ reqs[i].gen.pc = "thrown"
    /\ FailedStage(reqs[i].gen) = "encrypt"
    /\ reqs[i].gen.stages = <<"prepareSigningSecret", "sign", "importKey", "encrypt">>

\* ------------------------------------------------------------ C21..C30

\* childDomain without one trailing slash, when it has one.
OneSlashStripped(domain) ==
  IF Len(domain) > 0 /\ domain[Len(domain)] = Lit("/")
  THEN SubSeq(domain, 1, Len(domain) - 1)
  ELSE domain

\* Position of the first "?" of url (Len(url) + 1 when it has none).
QueryStart(url) ==
  LET hits == {i \in 1..Len(url) : url[i] = Lit("?")}
  IN IF hits = {} THEN Len(url) + 1
     ELSE CHOOSE i \in hits : \A j \in hits : i <= j

\* What the URL has between the stripped child domain and the "?".
UrlPath(url, config) ==
  SubSeq(url, Len(OneSlashStripped(config.childDomain)) + 1,
         QueryStart(url) - 1)

\* Number of "/" at the start of s.
LeadingSlashes(s) ==
  Cardinality({i \in 1..Len(s) : \A j \in 1..i : s[j] = Lit("/")})

\* C21: for every childDomain and urlPathPrefix, the URL starts with the
\* childDomain less exactly one trailing slash (when it has one), and the
\* path appended to it is empty for the prefixes "" and "/" and otherwise
\* starts with exactly one slash, however many the configured prefix has.
C21_OneLeadingSlash ==
  UrlBuilt =>
    LET url == call.url[1].val[1]
        config == call.config[1]
        base == OneSlashStripped(config.childDomain)
        path == UrlPath(url, config)
    IN /\ Len(url) >= Len(base) /\ SubSeq(url, 1, Len(base)) = base
       /\ IF PathPrefixOf(config) \in {<<>>, Str(<<"/">>)}
          THEN path = <<>>
          ELSE LeadingSlashes(path) = 1

\* What holds of the path: one slash is added to a prefix that has none, a
\* prefix that has slashes keeps all of them.
C21_PathAsConfigured ==
  UrlBuilt =>
    LET url == call.url[1].val[1]
        config == call.config[1]
        base == OneSlashStripped(config.childDomain)
        path == UrlPath(url, config)
        prefix == PathPrefixOf(config)
    IN /\ Len(url) >= Len(base) /\ SubSeq(url, 1, Len(base)) = base
       /\ IF prefix \in {<<>>, Str(<<"/">>)} THEN path = <<>>
          ELSE IF LeadingSlashes(prefix) = 0
               THEN path = Str(<<"/">>) \o prefix
               ELSE path = prefix

\* A URL was built for a prefix with two leading slashes and a child
\* domain with two trailing ones.
C21_Witness ==
  /\ UrlBuilt
  /\ LeadingSlashes(PathPrefixOf(call.config[1])) = 2
  /\ call.config[1].childDomain = Domain \o Str(<<"/", "/">>)

\* The query string the claim describes: the token parameter first, then
\* the additional parameters in their configured order, joined by "&".
TokenFirstQuery(token, config) ==
  LET pairs == <<<<TokenParamOf(config), token>>>> \o AdditionalParamsOf(config)
  IN JoinWith([i \in 1..Len(pairs) |->
                 FormEncode(pairs[i][1]) \o Str(<<"=">>)
                   \o FormEncode(pairs[i][2])],
              Str(<<"&">>))

\* The prefix is empty or "/".
NoPathConfigured(config) == PathPrefixOf(config) \in {<<>>, Str(<<"/">>)}

\* C22: when urlPathPrefix is empty or "/", the URL is exactly the
\* slash-stripped childDomain, "?", the token parameter, and then the
\* additional parameters in their configured order joined by "&"; no slash
\* stands before the "?" and the query string is not empty.
C22_DomainThenTokenFirstQuery ==
  (UrlBuilt /\ NoPathConfigured(call.config[1])) =>
    LET url == call.url[1].val[1]
        config == call.config[1]
        base == OneSlashStripped(config.childDomain)
    IN /\ url = base \o Str(<<"?">>)
                  \o TokenFirstQuery(call.gen.result[1], config)
       /\ QueryOf(url) # <<>>
       /\ QueryStart(url) > 1 /\ url[QueryStart(url) - 1] # Lit("/")

\* The same without the cases in which the code departs from it: an
\* additional parameter named like the token parameter or by an array
\* index, and a child domain with more than one trailing slash.
C22_HoldsWithoutCollisionIndexOrDoubleSlash ==
  (/\ UrlBuilt /\ NoPathConfigured(call.config[1])
   /\ \A i \in 1..Len(AdditionalParamsOf(call.config[1])) :
        LET k == AdditionalParamsOf(call.config[1])[i][1]
        IN k # TokenParamOf(call.config[1]) /\ ~IsArrayIndex(k)
   /\ ~EndsWith(OneSlashStripped(call.config[1].childDomain), "/"))
  => C22_DomainThenTokenFirstQuery

\* The default path prefix of the documentation (types/config.ts, PRD 2.4).
DocumentedPathPrefix ==
  Str(<<"/", "s", "s", "o", "/", "l", "a", "u", "n", "c", "h">>)

\* C23: when the environment configuration has no urlConfig, the launch
\* URL is {childDomain}/sso/launch?token={jweToken}: the path is the
\* documented default prefix and the only parameter is the token.
C23_DefaultPathPrefix ==
  (UrlBuilt /\ call.config[1].urlConfig = NoUrlConfig) =>
    LET url == call.url[1].val[1]
        config == call.config[1]
    IN url = OneSlashStripped(config.childDomain) \o DocumentedPathPrefix
               \o Str(<<"?">>) \o DefaultTokenParam \o Str(<<"=">>)
               \o call.gen.result[1]

\* What the code builds without a urlConfig: no path at all.
C23_NoPathByDefault ==
  (UrlBuilt /\ call.config[1].urlConfig = NoUrlConfig) =>
    call.url[1].val[1] =
      OneSlashStripped(call.config[1].childDomain)
        \o Str(<<"?">>) \o DefaultTokenParam \o Str(<<"=">>)
        \o call.gen.result[1]

\* The body of request i is no JSON, or lacks one of clientName,
\* environment, sessionPayload, userPayload (as every field of a body that
\* is the JSON null does).
StructurallyBad(i) ==
  reqs[i].body # <<>> /\ (~reqs[i].body[1].parsed \/ MissingFields(reqs[i].body[1]))

\* C24: a request whose body is no valid JSON, or lacks one of clientName,
\* environment, sessionPayload, userPayload, is answered 400 with
\* INVALID_REQUEST_BODY or MISSING_FIELDS, and neither the configuration
\* lookup nor signing nor encryption is entered for it.
C24_RejectedBeforeConfiguration ==
  \A i \in Answered :
    StructurallyBad(i) =>
      /\ reqs[i].resp[1].http = 400
      /\ reqs[i].resp[1].code =
           (IF ~reqs[i].body[1].parsed THEN "INVALID_REQUEST_BODY"
            ELSE "MISSING_FIELDS")
      /\ reqs[i].trace = <<>>
      /\ reqs[i].gen = NoGen

\* What holds of such a request: when its body is not the JSON null it is
\* answered as claimed; in every case no stage is entered for it.
C24_RejectedUnlessNull ==
  \A i \in Answered :
    StructurallyBad(i) =>
      /\ ~reqs[i].body[1].isNull => 
           /\ reqs[i].resp[1].http = 400
           /\ reqs[i].resp[1].code =
                (IF ~reqs[i].body[1].parsed THEN "INVALID_REQUEST_BODY"
                 ELSE "MISSING_FIELDS")
      /\ reqs[i].body[1].isNull =>
           /\ reqs[i].resp[1].http = 500
           /\ reqs[i].resp[1].code = "INTERNAL_SERVER_ERROR"
      /\ reqs[i].trace = <<>>
      /\ reqs[i].gen = NoGen

\* Answering such a request leaves the configuration cache as it was and
\* draws no random value.
C24_CacheUntouched ==
  [][\A i \in 1..NReq :
       (reqs[i].pc = "json" /\ reqs'[i].pc = "done" /\ StructurallyBad(i))
         => cache' = cache /\ rnd' = rnd]_vars

\* The calls made after call k of the history.
Later(k) == (k + 1)..Len(call.history)

\* The calls of loadAndValidateConfig that threw.
ThrowingCalls ==
  {k \in 1..Len(call.history) :
     call.history[k].loads /\ ~call.history[k].res.ok}

\* A cache holds a configuration or an error, never both.
NotBoth(c) == ~(c.parsedConfig # <<>> /\ c.parseError # <<>>)

\* After call k threw, every later call of loadAndValidateConfig throws
\* the error kept in the cache, the one call k threw, and leaves the cache
\* as it was, reads included; the health route answers 503.
StickyAfter(k) ==
  \A j \in Later(k) :
    LET c == call.history[j]
    IN /\ c.loads =>
            /\ ~c.res.ok
            /\ c.res.err = call.history[k].res.err
            /\ c.cache.parseError = <<c.res.err>>
       /\ c.cache = call.history[k].cache
       /\ c.op = "GET /api/health" => c.http = 503

\* C25, as claimed: once a call of loadAndValidateConfig has thrown, every
\* later call throws the same cached error without another read of the
\* environment, GET /api/health answers 503 and every POST
\* /api/token/generate answers 400 INVALID_CONFIGURATION; the cache never
\* holds a configuration and an error together.
C25_StickyError ==
  /\ NotBoth(cache)
  /\ \A k \in 1..Len(call.history) : NotBoth(call.history[k].cache)
  /\ \A k \in ThrowingCalls :
       /\ StickyAfter(k)
       /\ \A j \in Later(k) :
            call.history[j].op = "POST /api/token/generate" =>
              /\ call.history[j].http = 400
              /\ call.history[j].code = "INVALID_CONFIGURATION"

\* C25, amended: the same, the POSTs being those whose body passed the
\* validation of step 1; a POST rejected in step 1 is answered with the
\* error of its body and does not call loadAndValidateConfig.
C25_StickyErrorPastValidation ==
  /\ NotBoth(cache)
  /\ \A k \in 1..Len(call.history) : NotBoth(call.history[k].cache)
  /\ \A k \in ThrowingCalls :
       /\ StickyAfter(k)
       /\ \A j \in Later(k) :
            LET c == call.history[j]
            IN c.op = "POST /api/token/generate" =>
                 IF c.loads
                 THEN c.http = 400 /\ c.code = "INVALID_CONFIGURATION"
                 ELSE c.code \in {"INVALID_REQUEST_BODY", "MISSING_FIELDS",
                                  "INTERNAL_SERVER_ERROR"}

\* A getter threw the loader's error, then the health route and a POST
\* with every field were answered.
C25_Witness ==
  LET h == call.history
  IN /\ Len(h) = 3
     /\ h[1].op = "getClients" /\ ~h[1].res.ok
     /\ h[2].op = "GET /api/health" /\ h[2].http = 503
     /\ h[3].op = "POST /api/token/generate" /\ h[3].loads
     /\ h[3].code = "INVALID_CONFIGURATION"

\* The environments the configuration gives the client named name.
EnvironmentsOf(name) ==
  LET hits == {k \in 1..Len(env.source.clients) :
                 env.source.clients[k].name = name}
  IN IF hits = {} THEN <<>>
     ELSE env.source.clients[CHOOSE k \in hits : \A j \in hits : k <= j]
            .environments[1]

\* The client the last selectClient was called for, by a consumer or by
\* the effect of the first render ("" when the last call was another).
ClientJustSelected ==
  IF call.last.op = "selectClient" THEN call.last.arg
  ELSE IF call.last.op = "mount" /\ Len(call.provider.clients) > 0
  THEN call.provider.clients[1].name
  ELSE ""

\* C26: after selectClient(c), the automatic selection on mount included,
\* for a client c with at least one environment, the selected environment
\* is the first environment of c; and in every state the selected
\* environment configuration, when not null, is one of the selected
\* client's.
C26_FirstEnvironmentOfSelectedClient ==
  LET p == call.provider
      c == ClientJustSelected
  IN /\ (c # "" /\ Len(EnvironmentsOf(c)) > 0) =>
          /\ p.selectedClientName = c
          /\ p.selectedEnvironmentName = EnvironmentsOf(c)[1].name
          /\ p.selectedEnvironmentConfig = <<EnvironmentsOf(c)[1]>>
     /\ p.selectedEnvironmentConfig # <<>> =>
          \E k \in 1..Len(EnvironmentsOf(p.selectedClientName)) :
            EnvironmentsOf(p.selectedClientName)[k]
              = p.selectedEnvironmentConfig[1]

\* What holds after selectClient(c): c is selected and its environments
\* are the available ones; the environment is looked up under the client
\* that was selected before the call, and on mount, when none was, it is
\* not set at all.
C26_EnvironmentOfPreviousClient ==
  [][(call'.last.op = "selectClient" /\ call.provider.clients # <<>>) =>
       LET c == call'.last.arg
           p == call'.provider
           before == call.provider.selectedClientName
           first == EnvironmentsOf(c)[1].name
       IN /\ p.selectedClientName = c
          /\ p.availableEnvironments = EnvironmentsOf(c)
          /\ Len(EnvironmentsOf(c)) > 0 =>
               IF before = ""
               THEN /\ p.selectedEnvironmentName
                         = call.provider.selectedEnvironmentName
                    /\ p.selectedEnvironmentConfig
                         = call.provider.selectedEnvironmentConfig
               ELSE /\ p.selectedEnvironmentName = first
                    /\ p.selectedEnvironmentConfig =
                         SelectSeq(EnvironmentsOf(before),
                                   LAMBDA e : e.name = first)]_vars

\* ------------------------------------------------------ MainApp (React)

\* Texts of the session payload editor: a JSON text and a broken one.
SessionJson == "{\"id\":\"s1\"}"
BrokenJson == "{"
IsJson(text) == text # BrokenJson

MsgSelectFirst == "Please select a client and environment."
MsgInvalidPayload == "Invalid JSON in payload: "
MsgGenerateFirst ==
  "Please generate the URL first by clicking 'Preview URL'."
MsgFetchFailed == "Failed to fetch"

\* The state of MainApp's hooks; "" is the empty sequence.
AppInitial ==
  [sessionPayload |-> SessionJson, launchMethod |-> "iframe",
   token |-> <<>>, url |-> <<>>, loading |-> FALSE, error |-> <<>>,
   isUrlGenerated |-> FALSE]

\* What MainApp takes from useConfiguration().  The provider of
\* context/ConfigurationContext has no property selectedClient, so MainApp
\* reads undefined (supplies = FALSE); MainApp is written for a context
\* that supplies the selected client's object (supplies = TRUE).
AppContext(supplies, p) ==
  [selectedClient |-> IF supplies
                      THEN FindFirst(p.clients, p.selectedClientName)
                      ELSE <<>>,
   selectedEnvironmentConfig |-> p.selectedEnvironmentConfig,
   availableEnvironments |-> p.availableEnvironments,
   error |-> p.error, clients |-> p.clients]

\* The effect with dependencies [selectedClient, selectedEnvironmentConfig].
ResetEffect(before, after, m) ==
  IF before.selectedClient # after.selectedClient
     \/ before.selectedEnvironmentConfig # after.selectedEnvironmentConfig
  THEN [m EXCEPT !.token = <<>>, !.url = <<>>, !.error = <<>>,
                 !.isUrlGenerated = FALSE]
  ELSE m

\* generateTokenAndUrl up to its fetch, in the render of context ctx and
\* state m: the state it leaves and the body it posts, if it posts one.
GenerateStart(ctx, m) ==
  IF ctx.selectedClient = <<>> \/ ctx.selectedEnvironmentConfig = <<>>
  THEN [app |-> [m EXCEPT !.error = <<MsgSelectFirst>>], fetch |-> <<>>]
  ELSE IF ~IsJson(m.sessionPayload)
  THEN [app |-> [m EXCEPT !.error = <<MsgInvalidPayload>>], fetch |-> <<>>]
  ELSE [app |-> [m EXCEPT !.loading = TRUE, !.error = <<>>, !.token = <<>>,
                          !.url = <<>>, !.isUrlGenerated = FALSE],
        fetch |-> <<Body(ctx.selectedClient[1].name,
                         ctx.selectedEnvironmentConfig[1].name,
                         Some("s1"),
                         <<[identityKey |-> Some("u1"),
                            customer |-> Some("c1")]>>)>>]

\* The answer of POST /api/token/generate to body, or no answer when the
\* fetch is rejected.
ServerResponse(body) == Alone([NoRequest EXCEPT !.body = <<body>>]).resp[1]
Responses(body) == {<<>>, <<ServerResponse(body)>>}

\* generateTokenAndUrl from the settling of its fetch.
GenerateSettle(m, response) ==
  LET failed(message) ==
        [m EXCEPT !.error = message, !.token = <<>>, !.url = <<>>,
                  !.isUrlGenerated = FALSE, !.loading = FALSE]
  IN IF response = <<>> THEN failed(<<MsgFetchFailed>>)
     ELSE IF response[1].http \notin 200..299
     THEN failed(response[1].message)
     ELSE IF response[1].status = "success"
     THEN [m EXCEPT !.token = response[1].token, !.url = response[1].url,
                    !.isUrlGenerated = TRUE, !.loading = FALSE]
     ELSE failed(response[1].message)

\* launchChildApp of a render whose url and launchMethod are given: the
\* state it leaves and the URL it launches, if any.
launchChildApp(m, url, launchMethod) ==
  IF url = <<>>
  THEN [app |-> [m EXCEPT !.error = <<MsgGenerateFirst>>],
        launched |-> <<>>, opened |-> <<>>]
  ELSE [app |-> m, launched |-> url,
        opened |-> IF launchMethod = "iframe" THEN <<>> ELSE url]

\* handleLaunch after `await generateTokenAndUrl()`, with the url, error
\* and launchMethod of the render in which it was invoked.
LaunchAfterGenerate(m, closure) ==
  IF closure.url # <<>> /\ closure.error = <<>>
  THEN launchChildApp(m, closure.url, closure.launchMethod)
  ELSE [app |-> m, launched |-> <<>>, opened |-> <<>>]

\* What the last finished invocation of handleLaunch did: whether it went
\* through generateTokenAndUrl, the URL that generation gave, the URL it
\* launched and the URL it gave to window.open.
NoLaunch ==
  [branch |-> "none", generated |-> <<>>, launched |-> <<>>,
   opened |-> <<>>]
Launched(branch, generated, l) ==
  [branch |-> branch, generated |-> generated, launched |-> l.launched,
   opened |-> l.opened]

\* Configurations of the application: none, one whose dev environment has
\* a public key that does not import, and one with two clients.
AppSources ==
  {[kind |-> "unset", clients |-> <<>>],
   RootOf([BaseEnv EXCEPT !.encPublicKey = PemGarbage]),
   [kind |-> "root", clients |-> <<Acme, Beta(<<BetaDev>>)>>]}

\* Largest number of fetches in flight.
MaxFetches == 1

AppInit ==
  /\ env \in [source : AppSources, nodeEnv : {"production"}]
  /\ cache = EmptyCache
  /\ now = 0
  /\ rnd = 0
  /\ reqs = [i \in 1..NReq |-> NoRequest]
  /\ call \in {[pc |-> "unmounted", supplies |-> s,
                provider |-> ProviderInitial, app |-> AppInitial,
                fetches |-> <<>>, launch |-> NoLaunch] :
                 s \in BOOLEAN}

Context == AppContext(call.supplies, call.provider)

\* The provider's state becomes p: MainApp renders again and its effect
\* runs when a dependency changed.
Rendered(p) ==
  [call EXCEPT !.provider = p,
               !.app = ResetEffect(Context, AppContext(call.supplies, p), @)]

\* First render and effects: MainApp's, which leaves the initial state,
\* then the provider's.
AppMount ==
  /\ call.pc = "unmounted"
  /\ LET m == ProviderMountEffect(call.provider, cache, env.source)
     IN /\ call' = [Rendered(m.state) EXCEPT !.pc = "mounted"]
        /\ cache' = m.cache
  /\ UNCHANGED <<env, now, rnd, reqs>>

\* The user picks an option of ClientSelector, shown when the
\* configuration loaded and has clients.
AppSelectClient ==
  /\ call.pc = "mounted"
  /\ Context.error = <<>>
  /\ \E k \in 1..Len(Context.clients) :
       call' = Rendered(selectClient(call.provider, call.provider, cache,
                                     env.source, Context.clients[k].name))
  /\ UNCHANGED <<env, cache, now, rnd, reqs>>

\* The user picks an option of EnvironmentSelector, shown when
\* selectedClient?.name is set and there are environments.
AppSelectEnvironment ==
  /\ call.pc = "mounted"
  /\ Context.error = <<>>
  /\ Context.selectedClient # <<>>
  /\ \E k \in 1..Len(Context.availableEnvironments) :
       call' = Rendered(selectEnvironment(call.provider, call.provider,
                          cache, env.source,
                          Context.availableEnvironments[k].name))
  /\ UNCHANGED <<env, cache, now, rnd, reqs>>

\* The user edits the session payload.
AppEditSessionPayload ==
  /\ call.pc = "mounted"
  /\ \E text \in {SessionJson, BrokenJson} :
       /\ text # call.app.sessionPayload
       /\ call' = [call EXCEPT !.app.sessionPayload = text]
  /\ UNCHANGED <<env, cache, now, rnd, reqs>>

\* The user picks a launch method.
AppSetLaunchMethod ==
  /\ call.pc = "mounted"
  /\ \E method \in {"iframe", "newTab"} :
       /\ method # call.app.launchMethod
       /\ call' = [call EXCEPT !.app.launchMethod = method]
  /\ UNCHANGED <<env, cache, now, rnd, reqs>>

\* A fetch in flight: its body, the handler that waits for it, and for
\* handleLaunch the url, error and launchMethod of the render in which it
\* was invoked (generateTokenAndUrl reads none of them after its fetch).
Fetch(body, by, m) ==
  [body |-> body, by |-> by,
   closure |-> IF by = "launch"
               THEN [url |-> m.url, error |-> m.error,
                     launchMethod |-> m.launchMethod]
               ELSE [url |-> <<>>, error |-> <<>>, launchMethod |-> ""]]

\* "Preview URL": onPreview = generateTokenAndUrl.
AppPreview ==
  /\ call.pc = "mounted"
  /\ Len(call.fetches) < MaxFetches
  /\ LET g == GenerateStart(Context, call.app)
     IN call' = [call EXCEPT
                   !.app = g.app,
                   !.fetches = IF g.fetch = <<>> THEN @
                               ELSE Append(@, Fetch(g.fetch[1], "preview",
                                                    call.app))]
  /\ UNCHANGED <<env, cache, now, rnd, reqs>>

\* "Launch": onLaunch = handleLaunch, up to its first await or to its end.
AppLaunch ==
  /\ call.pc = "mounted"
  /\ Len(call.fetches) < MaxFetches
  /\ IF call.app.isUrlGenerated
     THEN LET l == launchChildApp(call.app, call.app.url,
                                  call.app.launchMethod)
          IN call' = [call EXCEPT
                        !.app = l.app,
                        !.launch = Launched("direct", <<>>, l)]
     ELSE LET g == GenerateStart(Context, call.app)
              closure == Fetch(<<>>, "launch", call.app).closure
              l == LaunchAfterGenerate(g.app, closure)
          IN IF g.fetch = <<>>
             THEN call' = [call EXCEPT
                             !.app = l.app,
                             !.launch = Launched("generate", <<>>, l)]
             ELSE call' = [call EXCEPT
                             !.app = g.app,
                             !.fetches = Append(@, Fetch(g.fetch[1], "launch",
                                                         call.app))]
  /\ UNCHANGED <<env, cache, now, rnd, reqs>>

\* A fetch settles, with the server's answer or rejected: the rest of
\* generateTokenAndUrl runs and then, if handleLaunch awaits it, the rest
\* of handleLaunch.
AppResponse ==
  /\ call.pc = "mounted"
  /\ \E k \in 1..Len(call.fetches) :
       \E response \in Responses(call.fetches[k].body) :
         LET f == call.fetches[k]
             m == GenerateSettle(call.app, response)
             rest == [i \in 1..(Len(call.fetches) - 1) |->
                        IF i < k THEN call.fetches[i]
                        ELSE call.fetches[i + 1]]
             l == LaunchAfterGenerate(m, f.closure)
         IN IF f.by = "preview"
            THEN call' = [call EXCEPT !.app = m, !.fetches = rest]
            ELSE call' = [call EXCEPT
                            !.app = l.app, !.fetches = rest,
                            !.launch = Launched("generate", m.url, l)]
  /\ UNCHANGED <<env, cache, now, rnd, reqs>>

AppNext ==
  \/ AppMount
  \/ AppSelectClient
  \/ AppSelectEnvironment
  \/ AppEditSessionPayload
  \/ AppSetLaunchMethod
  \/ AppPreview
  \/ AppLaunch
  \/ AppResponse

AppSpec == AppInit /\ [][AppNext]_vars

\* The body MainApp posts for the current selection.
SelectionBody ==
  Body(Context.selectedClient[1].name,
       Context.selectedEnvironmentConfig[1].name, Some("s1"),
       <<[identityKey |-> Some("u1"), customer |-> Some("c1")]>>)

C27_TokenAndUrlOfOneResponse ==
  /\ call.app.token # <<>> <=> call.app.url # <<>>
  /\ call.app.token # <<>> <=> call.app.isUrlGenerated
  /\ call.app.token # <<>> =>
       \E c \in {"Acme", "Beta"}, e \in {"dev", "prod"} :
         LET r == ServerResponse(Body(c, e, Some("s1"),
                    <<[identityKey |-> Some("u1"), customer |-> Some("c1")]>>))
         IN call.app.token = r.token /\ call.app.url = r.url

C28_LaunchesOnlyWhenAlreadyGenerated ==
  /\ [](call.launch.branch = "generate" =>
         call.launch.launched = <<>> /\ call.launch.opened = <<>>)
  /\ [][(call'.launch # call.launch /\ call'.launch.branch = "direct") =>
          /\ call.app.isUrlGenerated
          /\ call'.launch.launched = call.app.url
          /\ call'.launch.opened =
               (IF call.app.launchMethod = "newTab" THEN call.app.url
                ELSE <<>>)]_vars

\* --------------------------------------- POST /api/auth/login, AuthGuard

\* process.env.AUTH_USERNAME and AUTH_PASSWORD; "" is unset or empty.
AuthEnvs == [username : {"", "admin"}, password : {"", "pw"}]

\* Bodies of login requests: text that is no JSON, the JSON null, and
\* objects whose username and password are missing (""), right or wrong.
LoginBody(username, password) ==
  [parsed |-> TRUE, isNull |-> FALSE,
   username |-> username, password |-> password]
LoginBodies ==
  {[parsed |-> FALSE, isNull |-> FALSE, username |-> "", password |-> ""],
   [parsed |-> TRUE, isNull |-> TRUE, username |-> "", password |-> ""]}
  \cup {LoginBody(u, p) : u \in {"", "admin", "Admin"}, p \in {"", "pw", "pw "}}

LoginResponse(http, success, message) ==
  [http |-> http, json |-> TRUE, success |-> success, message |-> message]
\* The framework's answer when the handler throws: 500 without a JSON body.
UnhandledResponse ==
  [http |-> 500, json |-> FALSE, success |-> FALSE, message |-> ""]

\* POST up to `await req.json()`: the 500 of step 2, or nothing yet.
LoginEnter(authEnv) ==
  IF authEnv.username = "" \/ authEnv.password = ""
  THEN <<LoginResponse(500, FALSE, "Server configuration error.")>>
  ELSE <<>>

\* POST from the settling of `await req.json()`.
LoginFinish(authEnv, body) ==
  IF ~body.parsed THEN LoginResponse(400, FALSE, "Invalid request body.")
  ELSE IF body.isNull THEN UnhandledResponse
  ELSE IF body.username = "" \/ body.password = ""
  THEN LoginResponse(400, FALSE, "Username and password are required.")
  ELSE IF body.username = authEnv.username /\ body.password = authEnv.password
  THEN LoginResponse(200, TRUE, "")
  ELSE LoginResponse(401, FALSE, "Invalid credentials")

\* The whole of POST.
LoginPOST(authEnv, body) ==
  IF LoginEnter(authEnv) # <<>> THEN LoginEnter(authEnv)[1]
  ELSE LoginFinish(authEnv, body)

\* AuthGuard's test of the item read from sessionStorage, accepting every
\* value but "false".
GuardAcceptsUnlessFalse(authStatus) == authStatus # "false"

\* AuthGuard's test of the item read from sessionStorage (null is "").
GuardAccepts(authStatus) == authStatus = "true"

\* AuthGuard before its effect ran.
GuardInitial == [isAuthenticated |-> "null", checked |-> "unread"]
\* The login page's hooks.
LoginPageInitial == [error |-> "", isLoading |-> FALSE]
\* A request made of the route directly.
NoApiRequest == [pc |-> "idle", body |-> <<>>, read |-> FALSE, resp |-> <<>>]

\* handleLogin from the settling of its fetch: response is the server's
\* answer, or empty when the fetch was rejected.  The status it stores and
\* the error it shows.
LoginSucceeds(response) ==
  response # <<>> /\ response[1].json
  /\ response[1].http \in 200..299 /\ response[1].success
HandleLoginSettle(response) ==
  IF LoginSucceeds(response)
  THEN [status |-> "true", error |-> "", push |-> <<"/">>]
  ELSE [status |-> "false",
        error |-> IF response = <<>> THEN MsgFetchFailed
                  ELSE IF ~response[1].json THEN "Unexpected end of JSON input"
                  ELSE IF response[1].message # "" THEN response[1].message
                  ELSE "Login failed. Please check your credentials.",
        push |-> <<>>]

\* Credentials the user types.
Credentials ==
  {LoginBody(u, p) : u \in {"admin", "Admin"}, p \in {"pw", "pw "}}

\* call.page is the page shown ("" before the first), call.storage the
\* item sso_sim_auth_status of sessionStorage ("" when absent), call.last
\* what handleLogin saw in the last response it handled.
AuthInit ==
  /\ env \in [source : {[kind |-> "unset", clients |-> <<>>]},
              nodeEnv : {"production"}]
  /\ cache = EmptyCache
  /\ now = 0
  /\ rnd = 0
  /\ reqs = [i \in 1..NReq |-> NoRequest]
  /\ call \in {[pc |-> "auth", authEnv |-> e, page |-> "", storage |-> "",
                guard |-> GuardInitial, login |-> LoginPageInitial,
                fetch |-> <<>>, api |-> NoApiRequest,
                last |-> "none", failed |-> FALSE] : e \in AuthEnvs}

\* The user loads a page: its components mount afresh, a fetch of the
\* page left is dropped, sessionStorage stays.
AuthOpen ==
  /\ \E page \in {"/", "/login"} :
       call' = [call EXCEPT !.page = page, !.guard = GuardInitial,
                            !.login = LoginPageInitial, !.fetch = <<>>]
  /\ UNCHANGED <<env, cache, now, rnd, reqs>>

\* AuthGuard's effect on the protected page "/".
AuthGuardEffect ==
  /\ call.page = "/" /\ call.guard.isAuthenticated = "null"
  /\ call' = IF GuardAccepts(call.storage)
             THEN [call EXCEPT !.guard = [isAuthenticated |-> "true",
                                          checked |-> call.storage]]
             ELSE [call EXCEPT !.guard = [isAuthenticated |-> "false",
                                          checked |-> call.storage],
                               !.page = "/login",
                               !.login = LoginPageInitial]
  /\ UNCHANGED <<env, cache, now, rnd, reqs>>

\* The user submits the login form: handleLogin up to its fetch.
AuthSubmit ==
  /\ call.page = "/login" /\ ~call.login.isLoading
  /\ \E credentials \in Credentials :
       call' = [call EXCEPT !.login = [error |-> "", isLoading |-> TRUE],
                            !.fetch = <<credentials>>]
  /\ UNCHANGED <<env, cache, now, rnd, reqs>>

\* The fetch settles and handleLogin goes on.
AuthResponse ==
  /\ call.fetch # <<>>
  /\ \E response \in {<<>>, <<LoginPOST(call.authEnv, call.fetch[1])>>} :
       LET h == HandleLoginSettle(response)
       IN call' = [call EXCEPT
                     !.storage = h.status,
                     !.login = [error |-> h.error, isLoading |-> FALSE],
                     !.fetch = <<>>,
                     !.page = IF h.push = <<>> THEN @ ELSE h.push[1],
                     !.guard = IF h.push = <<>> THEN @ ELSE GuardInitial,
                     !.last = IF LoginSucceeds(response) THEN "success"
                              ELSE "failure",
                     !.failed = @ \/ ~LoginSucceeds(response)]
  /\ UNCHANGED <<env, cache, now, rnd, reqs>>

\* A client posts body to /api/auth/login: POST up to its await.
ApiReceive ==
  /\ call.api.pc = "idle"
  /\ \E body \in LoginBodies :
       call' = [call EXCEPT !.api =
                  IF LoginEnter(call.authEnv) # <<>>
                  THEN [pc |-> "done", body |-> <<body>>, read |-> FALSE,
                        resp |-> LoginEnter(call.authEnv)]
                  ELSE [pc |-> "json", body |-> <<body>>, read |-> FALSE,
                        resp |-> <<>>]]
  /\ UNCHANGED <<env, cache, now, rnd, reqs>>

\* req.json() settles and POST answers.
ApiParse ==
  /\ call.api.pc = "json"
  /\ call' = [call EXCEPT !.api.pc = "done", !.api.read = TRUE,
                          !.api.resp = <<LoginFinish(call.authEnv,
                                                     call.api.body[1])>>]
  /\ UNCHANGED <<env, cache, now, rnd, reqs>>

AuthNext ==
  \/ AuthOpen
  \/ AuthGuardEffect
  \/ AuthSubmit
  \/ AuthResponse
  \/ ApiReceive
  \/ ApiParse

AuthSpec == AuthInit /\ [][AuthNext]_vars

\* ---- C29, C30

ChildrenRendered == call.page = "/" /\ call.guard.isAuthenticated = "true"

\* C29: AuthGuard renders its children only when the item it read from
\* sessionStorage was "true", and otherwise sends the browser to /login;
\* the item is "true" only when the last login response handled was
\* HTTP-ok with success true and "false" after a failed attempt, so the
\* children are never rendered before a successful login of the session.
C29_RenderedOnlyAfterLogin ==
  call.pc = "auth" =>
    /\ ChildrenRendered =>
         call.guard.checked = "true" /\ call.last = "success"
    /\ call.guard.checked \notin {"unread", "true"} =>
         call.page = "/login" /\ call.guard.isAuthenticated = "false"
    /\ call.storage = "true" <=> call.last = "success"
    /\ call.storage = "false" <=> call.last = "failure"
    /\ call.last = "success" => call.authEnv = [username |-> "admin",
                                                password |-> "pw"]

\* The protected children rendered after a failed attempt and a login.
C29_Witness == call.pc = "auth" /\ ChildrenRendered /\ call.failed

ApiAnswered == call.pc = "auth" /\ call.api.pc = "done"
Configured(authEnv) == authEnv.username # "" /\ authEnv.password # ""
CredentialsMatch(authEnv, body) ==
  /\ body.parsed
  /\ body.username # "" /\ body.password # ""
  /\ body.username = authEnv.username /\ body.password = authEnv.password

\* C30: the login route answers 200 with success true exactly when both
\* variables are configured, the body parses and both supplied fields are
\* non-empty and equal to the configured values; otherwise 500 when a
\* variable is unset, decided before the body is read, 400 for an
\* unparsable body or a missing field, and 401 for a mismatch.
C30_LoginStatuses ==
  ApiAnswered =>
    LET e == call.authEnv
        b == call.api.body[1]
        r == call.api.resp[1]
    IN /\ (r.http = 200 /\ r.success)
            <=> (Configured(e) /\ CredentialsMatch(e, b))
       /\ ~Configured(e) => r.http = 500 /\ ~call.api.read
       /\ Configured(e) /\ ~CredentialsMatch(e, b) =>
            r.http = IF ~b.parsed \/ b.username = "" \/ b.password = ""
                     THEN 400 ELSE 401

\* What holds: the same for every body but the JSON null, which is
\* answered 500 by the framework though both variables are configured.
C30_LoginStatusesUnlessNull ==
  ApiAnswered =>
    LET e == call.authEnv
        b == call.api.body[1]
        r == call.api.resp[1]
    IN /\ (r.http = 200 /\ r.success)
            <=> (Configured(e) /\ CredentialsMatch(e, b))
       /\ ~Configured(e) => r.http = 500 /\ ~call.api.read
       /\ Configured(e) /\ ~CredentialsMatch(e, b) =>
            r.http = IF b.isNull THEN 500
                     ELSE IF ~b.parsed \/ b.username = "" \/ b.password = ""
                     THEN 400 ELSE 401

====
